---- MODULE Spec2Model ----
(***************************************************************************)
(* A model of rustdoc-denormalize: the IR index (database.rs), the import  *)
(* resolver (database.rs), the signature formatter and the denormalizer    *)
(* (lib.rs).                                                               *)
(*                                                                         *)
(* Strings are sequences of one-character strings, ordered as Rust orders  *)
(* `String`/`&str`: lexicographically by byte value.  Option<T> is a       *)
(* sequence of length 0 (None) or 1 (Some).                                *)
(***************************************************************************)
EXTENDS Integers, Sequences, FiniteSets, TLC

VARIABLES
    index,      \* rustdoc_types::Crate.index : Id -> Item (a map: absent ids are not in DOMAIN)
    paths,      \* rustdoc_types::Crate.paths : Id -> path components
    rpc,        \* position of the running find_<kind>s call
    rkind,      \* which resolver runs: the ItemEnum variant it accepts
    rids,       \* the `ids` argument of find_<kind>s
    rpos,       \* position of filter_map in `ids`
    rcur,       \* the `id` argument of the innermost find_<kind> frame
    rdepth,     \* number of find_<kind> frames below the innermost one
    rvisited,   \* ids the frames below the innermost one were called with
    rout,       \* the Vec collected so far
    krate,      \* main's `core` and `alloc`: the Crate each holds, once from_str has built it
    kstate,     \* what main has done with each: "unset", "loaded", "merged", "drained"
    pc,         \* "running", or "aborted" once the process has died
    aitems,     \* the `items` slice handed to the counting entry points
    acall,      \* the counting call made and its arguments; fn is "idle" before it
    aout,       \* the (count, excluded) pair the call returned
    fcall,      \* the formatter call made: the function and its arguments
    fout        \* what the call came to: not yet made, returned a text, or panicked

vars ==
    <<index, paths, rpc, rkind, rids, rpos, rcur, rdepth, rvisited, rout, krate, kstate, pc,
      aitems, acall, aout, fcall, fout>>
rvars == <<rpc, rkind, rids, rpos, rcur, rdepth, rvisited, rout>>
avars == <<aitems, acall, aout>>
fvars == <<fcall, fout>>

-----------------------------------------------------------------------------
(* Bounds of the model. *)

\* longest `items` slice the counting entry points are run on
MaxItems == 2

\* number of ids the resolver's index ranges over
NumIds == 3
\* longest `ids` slice handed to a find_<kind>s call
MaxList == 2
\* number of nested find_<kind> frames the thread's stack holds
StackLimit == 6

-----------------------------------------------------------------------------
(* Strings. *)

None == <<>>
Some(x) == <<x>>

\* a string literal as the sequence of its characters
S(str) == [i \in 1..Len(str) |-> SubSeq(str, i, i)]

\* the printable ASCII characters (without the backquote), in byte order
Ascii ==
    << " ", "!", "\"", "#", "$", "%", "&", "'", "(", ")", "*", "+", ",", "-", ".", "/",
       "0", "1", "2", "3", "4", "5", "6", "7", "8", "9", ":", ";", "<", "=", ">", "?",
       "@", "A", "B", "C", "D", "E", "F", "G", "H", "I", "J", "K", "L", "M", "N", "O",
       "P", "Q", "R", "S", "T", "U", "V", "W", "X", "Y", "Z", "[", "\\", "]", "^", "_",
       "a", "b", "c", "d", "e", "f", "g", "h", "i", "j", "k", "l", "m", "n", "o",
       "p", "q", "r", "s", "t", "u", "v", "w", "x", "y", "z", "{", "|", "}", "~" >>

CharCode == [c \in {Ascii[i] : i \in 1..Len(Ascii)} |->
                CHOOSE i \in 1..Len(Ascii) : Ascii[i] = c]

\* <str as Ord>::cmp, as -1 / 0 / 1
RECURSIVE StrCmp(_, _)
StrCmp(a, b) ==
    IF a = <<>> /\ b = <<>> THEN 0
    ELSE IF a = <<>> THEN -1
    ELSE IF b = <<>> THEN 1
    ELSE IF CharCode[Head(a)] < CharCode[Head(b)] THEN -1
    ELSE IF CharCode[Head(a)] > CharCode[Head(b)] THEN 1
    ELSE StrCmp(Tail(a), Tail(b))

\* str::starts_with
starts_with(s, pat) ==
    /\ Len(pat) <= Len(s)
    /\ SubSeq(s, 1, Len(pat)) = pat

\* str::ends_with
ends_with(s, pat) ==
    /\ Len(pat) <= Len(s)
    /\ SubSeq(s, Len(s) - Len(pat) + 1, Len(s)) = pat

\* str::contains
contains(s, pat) ==
    \E k \in 0..(Len(s) - Len(pat)) : SubSeq(s, k + 1, k + Len(pat)) = pat

\* [String]::join
RECURSIVE join(_, _)
join(parts, sep) ==
    IF parts = <<>> THEN <<>>
    ELSE IF Len(parts) = 1 THEN parts[1]
    ELSE parts[1] \o sep \o join(Tail(parts), sep)

Range(s) == {s[i] : i \in 1..Len(s)}

-----------------------------------------------------------------------------
(* The IR index (database.rs). *)

\* ItemEnum variants the resolvers accept
Kinds == {"Trait", "Function", "Struct", "Enum", "Impl"}

\* Database::find_item
find_item(id) == IF id \in DOMAIN index THEN Some(index[id]) ELSE None

\* Database::find_path
find_path(id) == IF id \in DOMAIN paths THEN Some(join(paths[id], S("::"))) ELSE None

\* the match of find_trait / find_function / find_struct / find_enum / find_impl
\* on item.inner: the arm taken for the resolver of `kind`
find_arm_no_deref(kind, item) ==
    IF item.inner.tag = kind THEN [arm |-> "Some"] ELSE [arm |-> "None"]

find_arm_any_kind(kind, item) ==
    IF item.inner.tag = "Import"
    THEN IF item.inner.id = None
         THEN [arm |-> "None"]
         ELSE [arm |-> "Recurse", id |-> item.inner.id[1]]
    ELSE [arm |-> "Some"]

find_arm(kind, item) ==
    IF item.inner.tag = kind
    THEN [arm |-> "Some"]
    ELSE IF item.inner.tag = "Import"
    THEN IF item.inner.id = None
         THEN [arm |-> "None"]
         ELSE [arm |-> "Recurse", id |-> item.inner.id[1]]
    ELSE [arm |-> "None"]

-----------------------------------------------------------------------------
(* The signature formatter (lib.rs). *)

\* iter().map(f).collect::<Vec<_>>() is written [i \in 1..Len(s) |-> f(s[i])]

\* iter().filter(p).count()
Count(s, P(_)) == Cardinality({i \in 1..Len(s) : P(s[i])})

\* the `{:?}` rendering of a Type, for the variants whose fields the model holds
RECURSIVE DebugType(_)
DebugBool(b) == IF b THEN S("true") ELSE S("false")
DebugString(str) == S("\"") \o str \o S("\"")
DebugOptionString(o) == IF o = None THEN S("None") ELSE S("Some(") \o DebugString(o[1]) \o S(")")
DebugType(ty) ==
    CASE ty.tag = "Generic" -> S("Generic(") \o DebugString(ty.name) \o S(")")
      [] ty.tag = "Primitive" -> S("Primitive(") \o DebugString(ty.name) \o S(")")
      [] ty.tag = "Infer" -> S("Infer")
      [] ty.tag = "Tuple" ->
            S("Tuple([") \o join([i \in 1..Len(ty.elems) |-> DebugType(ty.elems[i])], S(", "))
                \o S("])")
      [] ty.tag = "Slice" -> S("Slice(") \o DebugType(ty.type_) \o S(")")
      [] ty.tag = "Array" ->
            S("Array { type_: ") \o DebugType(ty.type_) \o S(", len: ")
                \o DebugString(ty.len) \o S(" }")
      [] ty.tag = "RawPointer" ->
            S("RawPointer { mutable: ") \o DebugBool(ty.mutable) \o S(", type_: ")
                \o DebugType(ty.type_) \o S(" }")
      [] ty.tag = "BorrowedRef" ->
            S("BorrowedRef { lifetime: ") \o DebugOptionString(ty.lifetime)
                \o S(", mutable: ") \o DebugBool(ty.mutable) \o S(", type_: ")
                \o DebugType(ty.type_) \o S(" }")

\* format_generic_bounds: one bound that is not `continue`d, as "{modifier}{trait_}"
format_generic_bound(bound) ==
    (CASE bound.modifier = "None" -> S("")
       [] bound.modifier = "Maybe" -> S("?")
       [] bound.modifier = "MaybeConst" -> S("~const ")) \o bound.trait_.name

\* format_generic_bounds: `match out.len()`
format_generic_bounds_out(kept) ==
    IF Len(kept) = 0
    THEN S("")
    ELSE S(": ") \o join([i \in 1..Len(kept) |-> format_generic_bound(kept[i])], S(" + "))

\* format_generic_bounds
format_generic_bounds(bounds) ==
    format_generic_bounds_out(SelectSeq(bounds, LAMBDA b : b.tag = "TraitBound"))

\* format_type
RECURSIVE format_type(_)
format_type(ty) ==
    CASE ty.tag = "Generic" -> ty.name
      [] ty.tag = "QualifiedPath" -> format_type(ty.self_type) \o S("::") \o ty.name
      [] ty.tag = "BorrowedRef" ->
            S("&") \o (IF ty.lifetime # None THEN ty.lifetime[1] ELSE S(""))
                \o (IF ty.mutable THEN S(" mut") ELSE S(""))
                \o S(" ") \o format_type(ty.type_)
      [] ty.tag = "Primitive" -> ty.name
      [] ty.tag = "ResolvedPath" -> ty.name
      [] ty.tag = "Tuple" ->
            join([i \in 1..Len(ty.elems) |-> format_type(ty.elems[i])], S(", "))
      [] ty.tag = "Slice" -> format_type(ty.type_)
      [] ty.tag = "RawPointer" ->
            IF ty.mutable
            THEN S("*mut ") \o format_type(ty.type_)
            ELSE S("*const ") \o format_type(ty.type_)
      [] ty.tag = "FunctionPointer" -> S("<todo: fn pointer>")
      [] ty.tag = "DynTrait" -> S("dyn ") \o join(ty.traits, S(" + "))
      [] ty.tag = "ImplTrait" -> S("impl ") \o format_generic_bounds(ty.bounds)
      [] ty.tag = "Array" -> S("[") \o format_type(ty.type_) \o S("; ") \o ty.len \o S("]")
      [] OTHER -> S("todo format type: ") \o DebugType(ty) \o S(">")

\* format_constant
format_constant(c) == S("todo: format constants")

\* format_term
format_term(term) ==
    CASE term.tag = "Type" -> format_type(term.type_)
      [] term.tag = "Constant" -> format_constant(term)

\* format_generic_params: one parameter that is not `continue`d
format_generic_param(param) ==
    CASE param.kind.tag = "Type" ->
            param.name
                \o format_generic_bounds(param.kind.bounds)
                \o (IF param.kind.default # None
                    THEN S(" = ") \o format_type(param.kind.default[1])
                    ELSE S(""))
      [] param.kind.tag = "Const" ->
            IF param.kind.default # None
            THEN S("const ") \o param.name \o S(": ") \o DebugType(param.kind.type_)
                    \o S(" = ") \o param.kind.default[1]
            ELSE S("const ") \o param.name \o S(": ") \o DebugType(param.kind.type_)

\* format_generic_params: `match out.len()`
format_generic_params_out(kept) ==
    IF Len(kept) = 0
    THEN S("")
    ELSE S("<") \o join([i \in 1..Len(kept) |-> format_generic_param(kept[i])], S(", "))
            \o S(">")

\* format_generic_params
format_generic_params(params) ==
    format_generic_params_out(SelectSeq(params, LAMBDA q : q.kind.tag # "Lifetime"))

\* format_where_bounds: one predicate
format_where_bound(pred) ==
    CASE pred.tag = "BoundPredicate" ->
            format_type(pred.type_) \o format_generic_bounds(pred.bounds)
      [] pred.tag = "RegionPredicate" -> S("todo: region predicate")
      [] pred.tag = "EqPredicate" ->
            format_type(pred.lhs) \o S(" = ") \o format_term(pred.rhs)

\* format_where_bounds
format_where_bounds(predicates) ==
    IF Len(predicates) = 0
    THEN S("")
    ELSE S(" where ")
            \o join([i \in 1..Len(predicates) |-> format_where_bound(predicates[i])], S(", "))

\* format_function: "{is_const}{is_unsafe}{is_async}fn {name}{params}({args}){output}{where_bounds}{body}"
format_function(name, fn_) ==
    IF name = S("merge_sort")
    THEN S("<merge sort is unstable and annoyingly complicated>")
    ELSE   (IF fn_.header.const_ THEN S("const ") ELSE S(""))       \* is_const
        \o (IF fn_.header.const_ THEN S("unsafe ") ELSE S(""))      \* is_unsafe
        \o (IF fn_.header.async_ THEN S("async ") ELSE S(""))       \* is_async
        \o S("fn ") \o name
        \o format_generic_params(fn_.generics.params)
        \o S("(")
        \o join([i \in 1..Len(fn_.decl.inputs) |->
                    fn_.decl.inputs[i][1] \o S(": ") \o format_type(fn_.decl.inputs[i][2])],
                S(", "))
        \o S(")")
        \o (IF fn_.decl.output # None
            THEN S(" -> ") \o format_type(fn_.decl.output[1])
            ELSE S(""))
        \o format_where_bounds(fn_.generics.where_predicates)
        \o (IF fn_.has_body THEN S(" { .. }") ELSE S(";"))          \* body

\* format_trait: "{is_unsafe}{is_auto}trait {name}{params}{trait_bounds} {where_bounds}{{ }}"
format_trait(name, trait_) ==
       (IF trait_.is_unsafe THEN S("unsafe ") ELSE S(""))
    \o (IF trait_.is_auto THEN S("auto ") ELSE S(""))
    \o S("trait ") \o name
    \o format_generic_params(trait_.generics.params)
    \o format_generic_bounds(trait_.bounds)
    \o S(" ")
    \o format_where_bounds(trait_.generics.where_predicates)
    \o S("{ }")

\* format_struct: "struct {name}{params} {where_bounds} {{ .. }}"
format_struct(name, strukt) ==
       S("struct ") \o name
    \o format_generic_params(strukt.generics.params)
    \o S(" ")
    \o format_where_bounds(strukt.generics.where_predicates)
    \o S(" { .. }")

\* format_enum: "enum {name}{params} {where_bounds} {{ .. }}"
format_enum(name, strukt) ==
       S("enum ") \o name
    \o format_generic_params(strukt.generics.params)
    \o S(" ")
    \o format_where_bounds(strukt.generics.where_predicates)
    \o S(" { .. }")

\* format_impl: "{is_unsafe} impl{params} {trait_} {ty} {where_bounds} {{}}"
format_impl(impl_) ==
       (IF impl_.is_unsafe THEN S("") ELSE S("unsafe "))           \* is_unsafe
    \o S(" impl")
    \o format_generic_params(impl_.generics.params)
    \o S(" ")
    \o (IF impl_.trait_ # None THEN impl_.trait_[1].name \o S(" for ") ELSE S(""))
    \o S(" ")
    \o format_type(impl_.for_)
    \o S(" ")
    \o format_where_bounds(impl_.generics.where_predicates)
    \o S(" {}")

\* contains_generics
contains_generics_all_params(generics) ==
    (Len(generics.params)
        + Count(generics.where_predicates, LAMBDA q : q.tag = "BoundPredicate")) # 0

contains_generics(generics) ==
    (Count(generics.params, LAMBDA q : q.kind.tag # "Lifetime")
        + Count(generics.where_predicates, LAMBDA q : q.tag = "BoundPredicate")) # 0

\* parse_stability: the last assignment of the loop wins, and every assignment is Stable
parse_stability(attrs) ==
    IF \E i \in 1..Len(attrs) : contains(attrs[i], S("#[stable"))
    THEN "Stable"
    ELSE "Unstable"

-----------------------------------------------------------------------------
(* The resolvers as functions (database.rs), for the denormalizer's calls. *)

\* find_trait / find_function / find_struct / find_enum / find_impl with `depth`
\* frames below: Some((item, ty)), None, or the stack is exhausted
RECURSIVE find(_, _, _)
find(kind, id, depth) ==
    IF find_item(id) = None
    THEN [st |-> "None"]
    ELSE LET item == find_item(id)[1]
             a == find_arm(kind, item)
         IN  CASE a.arm = "Some" -> [st |-> "Some", item |-> item]
               [] a.arm = "None" -> [st |-> "None"]
               [] a.arm = "Recurse" ->
                    IF depth >= StackLimit
                    THEN [st |-> "Overflow"]
                    ELSE find(kind, a.id, depth + 1)

\* find_traits / find_functions / find_structs / find_enums / find_impls:
\* the items found, and whether a resolution exhausted the stack
find_list(kind, ids) ==
    LET res == [i \in 1..Len(ids) |-> find(kind, ids[i], 0)]
        some == SelectSeq(res, LAMBDA r : r.st = "Some")
    IN  [items |-> [i \in 1..Len(some) |-> some[i].item],
         overflow |-> \E i \in 1..Len(res) : res[i].st = "Overflow"]

-----------------------------------------------------------------------------
(* The denormalizer (lib.rs). *)

\* struct Trait / Struct / Enum / Function / Impl: the fields in declaration order
Record(kind, name, path, decl, has_generics, stability, fn_count) ==
    [kind |-> kind, name |-> name, path |-> path, decl |-> decl,
     has_generics |-> has_generics, stability |-> stability, fn_count |-> fn_count]

\* main's variables holding a Crate
Slots == {"core", "alloc", "std"}

\* Crate::default()
EmptyCrate ==
    [traits |-> <<>>, structs |-> <<>>, enums |-> <<>>, impls |-> <<>>, functions |-> <<>>]

\* the Crate under construction; `fault` is set when the process has aborted
\* (stack exhausted in a resolver, or item.name.unwrap() on None)
EmptyOutput ==
    [traits |-> <<>>, structs |-> <<>>, enums |-> <<>>, impls |-> <<>>, functions |-> <<>>,
     fault |-> FALSE]

\* format!("{path_name}::{}", &name): the path handed down to the members of an owner
scope_path_without_owner(path_name, name) == path_name

scope_path(path_name, name) == path_name \o S("::") \o name

\* the enum members of a trait impl: `if let Unstable = parse_stability(..) { stability = Unstable }`
promote_by_enums(stability, enums) ==
    IF \E i \in 1..Len(enums) : parse_stability(enums[i].attrs) = "Unstable"
    THEN "Unstable"
    ELSE stability

\* the trait of a trait impl: `match db.find_traits(&[trait_.id]).into_iter().next()`
promote_by_trait_never(stability, traits) == stability

promote_by_trait_unless_found(stability, traits) ==
    IF traits = <<>> \/ parse_stability(traits[1].attrs) = "Unstable"
    THEN "Unstable"
    ELSE stability

promote_by_trait(stability, traits) ==
    IF traits # <<>> /\ parse_stability(traits[1].attrs) = "Unstable"
    THEN "Unstable"
    ELSE stability

\* a resolver's Vec was cut short: the stack was exhausted on the way
with_overflow(c, found) == [c EXCEPT !.fault = @ \/ found.overflow]

\* Crate::count_functions: `item.name.unwrap()`
function_name(item) == IF item.name # None THEN item.name[1] ELSE S("")

\* Crate::count_functions: the Function pushed for an item found
function_record(item, path_name, parent_has_generics) ==
    Record(S("function"), function_name(item), path_name,
           format_function(function_name(item), item.inner),
           contains_generics(item.inner.generics) \/ parent_has_generics,
           parse_stability(item.attrs), 0)

\* Crate::count_functions, the loop over the functions found
count_functions_found(c, found, path_name, parent_has_generics) ==
    [c |-> [c EXCEPT !.functions =
                        @ \o [i \in 1..Len(found.items) |->
                                function_record(found.items[i], path_name, parent_has_generics)],
                     !.fault = @ \/ found.overflow
                                 \/ \E i \in 1..Len(found.items) : found.items[i].name = None],
     count |-> Len(found.items)]

\* Crate::count_functions: the Crate after the pushes, and the count returned
count_functions(c, items, path_name, parent_has_generics) ==
    count_functions_found(c, find_list("Function", items), path_name, parent_has_generics)

\* Crate::parse_traits: the Trait pushed, `counted` being what count_functions returned
parse_traits_push(counted, item, path_name) ==
    [counted.c EXCEPT !.traits =
        Append(@, Record(S("trait"), item.name[1], path_name,
                         format_trait(item.name[1], item.inner),
                         contains_generics(item.inner.generics),
                         parse_stability(item.attrs), counted.count))]

\* Crate::parse_traits, one iteration
parse_traits_item(c, item, path_name) ==
    parse_traits_push(
        count_functions(c, item.inner.items, scope_path(path_name, item.name[1]),
                        contains_generics(item.inner.generics)),
        item, path_name)

\* Crate::parse_traits, the loop over the traits found
RECURSIVE parse_traits_loop(_, _, _)
parse_traits_loop(c, found, path_name) ==
    IF found = <<>> THEN c
    ELSE IF Head(found).name = None THEN [c EXCEPT !.fault = TRUE]
    ELSE parse_traits_loop(parse_traits_item(c, Head(found), path_name), Tail(found), path_name)

\* Crate::parse_traits
parse_traits(c, items, path_name) ==
    parse_traits_loop(with_overflow(c, find_list("Trait", items)),
                      find_list("Trait", items).items, path_name)

\* Crate::count_inherent_impls, the loop over the impls found
RECURSIVE count_inherent_impls_loop(_, _, _, _)
\* `count += self.count_functions(..)`
count_inherent_impls_add_last_only(counted, rest, path_name, count) ==
    count_inherent_impls_loop(counted.c, rest, path_name, counted.count)

count_inherent_impls_add(counted, rest, path_name, count) ==
    count_inherent_impls_loop(counted.c, rest, path_name, count + counted.count)

count_inherent_impls_loop(c, found, path_name, count) ==
    IF found = <<>> THEN [c |-> c, count |-> count]
    ELSE IF \/ Head(found).inner.trait_ # None
            \/ Head(found).inner.synthetic
            \/ Head(found).inner.blanket_impl # None
    THEN count_inherent_impls_loop(c, Tail(found), path_name, count)
    ELSE count_inherent_impls_add(
            count_functions(c, Head(found).inner.items, path_name,
                            contains_generics(Head(found).inner.generics)),
            Tail(found), path_name, count)

\* Crate::count_inherent_impls
count_inherent_impls(c, items, path_name) ==
    count_inherent_impls_loop(with_overflow(c, find_list("Impl", items)),
                              find_list("Impl", items).items, path_name, 0)

\* Crate::parse_trait_impls: `stability` after the enum members and the trait of the impl
impl_stability(impl_, stability) ==
    promote_by_trait(promote_by_enums(stability, find_list("Enum", impl_.items).items),
                     find_list("Trait", <<impl_.trait_[1].id>>).items)

\* Crate::parse_trait_impls, the loop over the impls found; `stability` is the
\* mutable parameter, carried from one iteration to the next
RECURSIVE parse_trait_impls_loop(_, _, _, _)
\* the Impl pushed, with the stability the iteration arrived at
parse_trait_impls_push(c, impl_, rest, path_name, stability) ==
    parse_trait_impls_loop(
        [c EXCEPT !.impls =
                    Append(@, Record(S("impl"), impl_.trait_[1].name, path_name,
                                     format_impl(impl_), contains_generics(impl_.generics),
                                     stability, 0)),
                  !.fault = @ \/ find_list("Enum", impl_.items).overflow
                              \/ find_list("Trait", <<impl_.trait_[1].id>>).overflow],
        rest, path_name, stability)

parse_trait_impls_loop(c, found, path_name, stability) ==
    IF found = <<>> THEN c
    ELSE IF Head(found).inner.trait_ = None
    THEN parse_trait_impls_loop(c, Tail(found), path_name, stability)
    ELSE parse_trait_impls_push(c, Head(found).inner, Tail(found), path_name,
                                impl_stability(Head(found).inner, stability))

\* Crate::parse_trait_impls
parse_trait_impls(c, items, path_name, stability) ==
    parse_trait_impls_loop(with_overflow(c, find_list("Impl", items)),
                           find_list("Impl", items).items, path_name, stability)

\* Crate::parse_structs: the trait impls and the Struct pushed, `counted` being what
\* count_inherent_impls returned
parse_structs_push(counted, item, path_name) ==
    [parse_trait_impls(counted.c, item.inner.impls, path_name, parse_stability(item.attrs))
        EXCEPT !.structs =
            Append(@, Record(S("struct"), item.name[1], path_name,
                             format_struct(item.name[1], item.inner),
                             contains_generics(item.inner.generics),
                             parse_stability(item.attrs), counted.count))]

\* Crate::parse_structs, one iteration
parse_structs_item(c, item, path_name) ==
    parse_structs_push(
        count_inherent_impls(c, item.inner.impls, scope_path(path_name, item.name[1])),
        item, path_name)

\* Crate::parse_structs, the loop over the structs found
RECURSIVE parse_structs_loop(_, _, _)
parse_structs_loop(c, found, path_name) ==
    IF found = <<>> THEN c
    ELSE IF Head(found).name = None THEN [c EXCEPT !.fault = TRUE]
    ELSE parse_structs_loop(parse_structs_item(c, Head(found), path_name), Tail(found),
                            path_name)

\* Crate::parse_structs
parse_structs(c, items, path_name) ==
    parse_structs_loop(with_overflow(c, find_list("Struct", items)),
                       find_list("Struct", items).items, path_name)

\* Crate::parse_enums: the trait impls and the Enum pushed, `counted` being what
\* count_inherent_impls returned
parse_enums_push(counted, item, path_name) ==
    [parse_trait_impls(counted.c, item.inner.impls, path_name, parse_stability(item.attrs))
        EXCEPT !.enums =
            Append(@, Record(S("enum"), item.name[1], path_name,
                             format_enum(item.name[1], item.inner),
                             contains_generics(item.inner.generics),
                             parse_stability(item.attrs), counted.count))]

\* Crate::parse_enums, one iteration
parse_enums_item(c, item, path_name) ==
    parse_enums_push(
        count_inherent_impls(c, item.inner.impls, scope_path(path_name, item.name[1])),
        item, path_name)

\* Crate::parse_enums, the loop over the enums found
RECURSIVE parse_enums_loop(_, _, _)
parse_enums_loop(c, found, path_name) ==
    IF found = <<>> THEN c
    ELSE IF Head(found).name = None THEN [c EXCEPT !.fault = TRUE]
    ELSE parse_enums_loop(parse_enums_item(c, Head(found), path_name), Tail(found), path_name)

\* Crate::parse_enums
parse_enums(c, items, path_name) ==
    parse_enums_loop(with_overflow(c, find_list("Enum", items)),
                     find_list("Enum", items).items, path_name)

\* -1 / 0 / 1 for bool, Stability (Stable < Unstable) and usize
BoolCmp(a, b) == IF a = b THEN 0 ELSE IF b THEN -1 ELSE 1
StabilityCmp(a, b) == IF a = b THEN 0 ELSE IF b = "Unstable" THEN -1 ELSE 1
IntCmp(a, b) == IF a = b THEN 0 ELSE IF a < b THEN -1 ELSE 1

\* the first comparison of the sequence that is not Equal
RECURSIVE FirstNonZero(_)
FirstNonZero(cmps) ==
    IF cmps = <<>> THEN 0
    ELSE IF Head(cmps) # 0 THEN Head(cmps)
    ELSE FirstNonZero(Tail(cmps))

\* #[derive(PartialOrd, Ord)] on Trait / Struct / Enum / Function / Impl:
\* lexicographic in the order the fields are declared
RecordCmp_path_first(a, b) ==
    FirstNonZero(<<StrCmp(a.kind, b.kind), StrCmp(a.path, b.path), StrCmp(a.name, b.name),
                   StrCmp(a.decl, b.decl), BoolCmp(a.has_generics, b.has_generics),
                   StabilityCmp(a.stability, b.stability), IntCmp(a.fn_count, b.fn_count)>>)

RecordCmp(a, b) ==
    FirstNonZero(<<StrCmp(a.kind, b.kind), StrCmp(a.name, b.name), StrCmp(a.path, b.path),
                   StrCmp(a.decl, b.decl), BoolCmp(a.has_generics, b.has_generics),
                   StabilityCmp(a.stability, b.stability), IntCmp(a.fn_count, b.fn_count)>>)

\* a stable sort: an element goes behind the smaller ones and behind the equal ones
\* that come before it
SortBy(v, Cmp(_, _)) ==
    [k \in 1..Len(v) |->
        v[CHOOSE i \in 1..Len(v) :
            k = 1 + Cardinality({j \in 1..Len(v) :
                        \/ Cmp(v[j], v[i]) < 0
                        \/ Cmp(v[j], v[i]) = 0 /\ j < i})]]

\* Vec::sort on a Vec of records
sort_not_at_all(v) == v

sort(v) == SortBy(v, RecordCmp)

\* Vec::dedup: of consecutive equal elements the first is kept
RECURSIVE dedup(_)
dedup(v) ==
    IF Len(v) <= 1 THEN v
    ELSE IF v[Len(v)] = v[Len(v) - 1] THEN dedup(SubSeq(v, 1, Len(v) - 1))
    ELSE Append(dedup(SubSeq(v, 1, Len(v) - 1)), v[Len(v)])

\* Database::modules: the Module items that have a path, sorted by path
modules_sorted(with_path) ==
    SortBy([i \in 1..Len(with_path) |->
                [path |-> find_path(with_path[i])[1], module |-> index[with_path[i]].inner]],
           LAMBDA left, right : StrCmp(left.path, right.path))

\* Database::modules: `order` is the order in which the index (a HashMap) yields
\* its Module items
modules(order) == modules_sorted(SelectSeq(order, LAMBDA id : find_path(id) # None))

\* Crate::from_str, the body of the loop over the modules
from_str_module(output, items, path_name) ==
    parse_enums(
        parse_structs(
            count_functions(parse_traits(output, items, path_name), items, path_name, FALSE).c,
            items, path_name),
        items, path_name)

\* Crate::from_str, the loop over the modules
RECURSIVE from_str_loop(_, _)
from_str_loop(output, mods) ==
    IF mods = <<>> THEN output
    ELSE from_str_loop(from_str_module(output, Head(mods).module.items, Head(mods).path),
                       Tail(mods))

\* Crate::from_str, after the loop: every collection sorted and deduplicated
from_str_sorted(output) ==
    IF output.fault
    THEN [ok |-> FALSE]
    ELSE [ok |-> TRUE,
          traits |-> dedup(sort(output.traits)),
          structs |-> dedup(sort(output.structs)),
          enums |-> dedup(sort(output.enums)),
          impls |-> dedup(sort(output.impls)),
          functions |-> dedup(sort(output.functions))]

\* Crate::from_str on the index: Ok(output), or the process has aborted
from_str(order) == from_str_sorted(from_str_loop(EmptyOutput, modules(order)))

-----------------------------------------------------------------------------
(* The resolvers, one frame at a time (database.rs, find_traits .. find_impls). *)

\* the ids of the indexes the resolvers are run on
IdPool == <<"0:1", "0:2", "0:3", "0:4", "0:5", "0:6">>
ResolveIds == {IdPool[i] : i \in 1..NumIds}
\* ids a caller may pass: ids of the index, and ids the index does not hold
RequestIds == ResolveIds \cup DOMAIN index

\* filter_map moves to the next id of `ids`, or collect() returns
Advance(out) ==
    /\ rout' = out
    /\ rvisited' = {}
    /\ rdepth' = 0
    /\ IF rpos < Len(rids)
       THEN /\ rpos' = rpos + 1
            /\ rcur' = rids[rpos + 1]
            /\ rpc' = "call"
       ELSE /\ rpos' = rpos
            /\ rcur' = rcur
            /\ rpc' = "done"

\* sequences of at most n distinct elements of U
DistinctSeqs(U, n) ==
    {q \in UNION {[1..k -> U] : k \in 0..n} : \A i, j \in 1..Len(q) : i # j => q[i] # q[j]}

\* find_<kind>s(ids) is called, <kind> being rkind
Request ==
    /\ rpc = "idle"
    /\ \E ids \in DistinctSeqs(RequestIds, MaxList) :
            /\ rids' = ids
            /\ rout' = <<>>
            /\ rvisited' = {}
            /\ rdepth' = 0
            /\ IF ids = <<>>
               THEN rpos' = 0 /\ rcur' = rcur /\ rpc' = "done"
               ELSE rpos' = 1 /\ rcur' = ids[1] /\ rpc' = "call"
    /\ UNCHANGED <<index, paths, rkind, krate, kstate, pc, avars, fvars>>

\* db.find_item(id) is None: and_then yields None
FindMissing ==
    /\ rpc = "call"
    /\ find_item(rcur) = None
    /\ Advance(rout)
    /\ UNCHANGED <<index, paths, rkind, rids, krate, kstate, pc, avars, fvars>>

\* the arm `ItemEnum::<Kind>(ty) => Some((item, ty))`
FindMatch ==
    /\ rpc = "call"
    /\ find_item(rcur) # None
    /\ find_arm(rkind, find_item(rcur)[1]).arm = "Some"
    /\ Advance(Append(rout, find_item(rcur)[1]))
    /\ UNCHANGED <<index, paths, rkind, rids, krate, kstate, pc, avars, fvars>>

\* the arm `_ => None`, and `import.id?` on an Import without a target
FindOther ==
    /\ rpc = "call"
    /\ find_item(rcur) # None
    /\ find_arm(rkind, find_item(rcur)[1]).arm = "None"
    /\ Advance(rout)
    /\ UNCHANGED <<index, paths, rkind, rids, krate, kstate, pc, avars, fvars>>

\* the arm `ItemEnum::Import(import) => find_<kind>(db, &import.id?)`: a new frame
FindImport ==
    /\ rpc = "call"
    /\ find_item(rcur) # None
    /\ find_arm(rkind, find_item(rcur)[1]).arm = "Recurse"
    /\ rdepth < StackLimit
    /\ rcur' = find_arm(rkind, find_item(rcur)[1]).id
    /\ rdepth' = rdepth + 1
    /\ rvisited' = rvisited \cup {rcur}
    /\ UNCHANGED <<index, paths, rpc, rkind, rids, rpos, rout, krate, kstate, pc, avars, fvars>>

\* the same arm when the stack has no room for another frame: the process aborts
StackOverflow ==
    /\ rpc = "call"
    /\ find_item(rcur) # None
    /\ find_arm(rkind, find_item(rcur)[1]).arm = "Recurse"
    /\ rdepth >= StackLimit
    /\ rpc' = "overflow"
    /\ UNCHANGED <<index, paths, rkind, rids, rpos, rcur, rdepth, rvisited, rout, krate, kstate, pc, avars, fvars>>

-----------------------------------------------------------------------------
(* Indexes the resolvers are run on. *)

\* an Item of the index: the fields of rustdoc_types::Item the program reads
Item(id, name, attrs, inner) == [id |-> id, name |-> name, attrs |-> attrs, inner |-> inner]

\* the inner of an item the resolvers return or pass over, without its payload
BareInner(tag) == [tag |-> tag]
\* ItemEnum::Import
ImportInner(target) == [tag |-> "Import", id |-> target]

\* a kind other than k
OtherKind(k) ==
    CASE k = "Trait" -> "Function"
      [] k = "Function" -> "Struct"
      [] k = "Struct" -> "Enum"
      [] k = "Enum" -> "Impl"
      [] k = "Impl" -> "Trait"

\* what an id of the index holds when the resolver for k runs: a definition of the
\* kind, a definition of another kind, or an Import with or without a target
ResolveInners(k) ==
    {BareInner(k), BareInner(OtherKind(k))}
        \cup {ImportInner(t) : t \in {None} \cup {Some(i) : i \in ResolveIds}}

InitResolve ==
    /\ rkind \in Kinds
    /\ \E D \in SUBSET ResolveIds :
         \E sh \in [D -> ResolveInners(rkind)] :
            index = [i \in D |-> Item(i, Some(S("x")), <<>>, sh[i])]
    /\ paths = <<>>
    /\ rpc = "idle"
    /\ rids = <<>>
    /\ rpos = 0
    /\ rcur = IdPool[1]
    /\ rdepth = 0
    /\ rvisited = {}
    /\ rout = <<>>
    /\ krate = [slot \in Slots |-> EmptyCrate]
    /\ kstate = [slot \in Slots |-> "unset"]
    /\ pc = "running"
    /\ aitems = <<>>
    /\ acall = [fn |-> "idle"]
    /\ aout = <<0, 0>>
    /\ fcall = [fn |-> "idle"]
    /\ fout = [st |-> "none"]

NextResolve ==
    \/ Request
    \/ FindMissing
    \/ FindMatch
    \/ FindOther
    \/ FindImport
    \/ StackOverflow

SpecResolve == InitResolve /\ [][NextResolve]_vars

-----------------------------------------------------------------------------
(* main (main.rs, with the Crate of lib.rs): from_str per input, then append. *)

\* the orders in which the index, a HashMap, can yield its Module items
HashOrders ==
    LET mods == {id \in DOMAIN index : index[id].inner.tag = "Module"}
    IN  {q \in [1..Cardinality(mods) -> mods] : \A i, j \in 1..Len(q) : i # j => q[i] # q[j]}

\* let mut <slot> = Crate::from_str(..)?
FromStr(slot) ==
    /\ pc = "running"
    /\ kstate[slot] = "unset"
    /\ \E order \in HashOrders : \E built \in {from_str(order)} :
             IF built.ok
             THEN /\ krate' = [krate EXCEPT ![slot] =
                                [traits |-> built.traits, structs |-> built.structs,
                                 enums |-> built.enums, impls |-> built.impls,
                                 functions |-> built.functions]]
                  /\ kstate' = [kstate EXCEPT ![slot] = "loaded"]
                  /\ pc' = pc
             ELSE /\ pc' = "aborted"
                  /\ UNCHANGED <<krate, kstate>>
    /\ UNCHANGED <<index, paths, rvars, avars, fvars>>

\* Vec::append: the elements of other move behind those of self
\* Crate::append
append(self, other) ==
    [self |-> [self EXCEPT !.traits = @ \o other.traits,
                           !.structs = @ \o other.structs,
                           !.enums = @ \o other.enums,
                           !.functions = @ \o other.functions],
     other |-> [other EXCEPT !.traits = <<>>,
                             !.structs = <<>>,
                             !.enums = <<>>,
                             !.functions = <<>>]]

\* <self>.append(&mut <other>)
AppendCall(self, other) ==
    /\ pc = "running"
    /\ self # other
    /\ kstate[self] # "unset"
    /\ kstate[other] # "unset"
    /\ krate' = [krate EXCEPT ![self] = append(krate[self], krate[other]).self,
                              ![other] = append(krate[self], krate[other]).other]
    /\ kstate' = [kstate EXCEPT ![self] = "merged", ![other] = "drained"]
    /\ UNCHANGED <<index, paths, rvars, pc, avars, fvars>>

-----------------------------------------------------------------------------
(* The IR graphs the denormalizer is run on. *)

\* rustdoc_types::Generics and its parts
Generics(params, where_predicates) == [params |-> params, where_predicates |-> where_predicates]
LifetimeParam(name) == [name |-> name, kind |-> [tag |-> "Lifetime"]]
TypeParam(name, bounds, default) ==
    [name |-> name, kind |-> [tag |-> "Type", bounds |-> bounds, default |-> default,
                              synthetic |-> FALSE]]
ConstParam(name, type_, default) ==
    [name |-> name, kind |-> [tag |-> "Const", type_ |-> type_, default |-> default]]
Path(name, id) == [name |-> name, id |-> id]
TraitBound(name, modifier) ==
    [tag |-> "TraitBound", trait_ |-> Path(name, "9:9"), modifier |-> modifier]
Outlives(lifetime) == [tag |-> "Outlives", lifetime |-> lifetime]
BoundPredicate(type_, bounds) == [tag |-> "BoundPredicate", type_ |-> type_, bounds |-> bounds]
RegionPredicate(lifetime, bounds) ==
    [tag |-> "RegionPredicate", lifetime |-> lifetime, bounds |-> bounds]
EqPredicate(lhs, rhs) == [tag |-> "EqPredicate", lhs |-> lhs, rhs |-> rhs]
TermType(type_) == [tag |-> "Type", type_ |-> type_]

\* rustdoc_types::Type
TGeneric(name) == [tag |-> "Generic", name |-> name]
TPrimitive(name) == [tag |-> "Primitive", name |-> name]
TResolvedPath(name) == [tag |-> "ResolvedPath", name |-> name]
TBorrowedRef(lifetime, mutable, type_) ==
    [tag |-> "BorrowedRef", lifetime |-> lifetime, mutable |-> mutable, type_ |-> type_]
TQualifiedPath(name, self_type) ==
    [tag |-> "QualifiedPath", name |-> name, self_type |-> self_type]

\* rustdoc_types::ItemEnum variants with the fields lib.rs reads
ModuleInner(items) == [tag |-> "Module", items |-> items]
TraitInner(generics, bounds, items, is_auto, is_unsafe) ==
    [tag |-> "Trait", generics |-> generics, bounds |-> bounds, items |-> items,
     is_auto |-> is_auto, is_unsafe |-> is_unsafe]
StructInner(generics, impls) == [tag |-> "Struct", generics |-> generics, impls |-> impls]
EnumInner(generics, impls) == [tag |-> "Enum", generics |-> generics, impls |-> impls]
FunctionInner(generics, header, has_body, inputs, output) ==
    [tag |-> "Function", generics |-> generics, header |-> header, has_body |-> has_body,
     decl |-> [inputs |-> inputs, output |-> output]]
Header(const_, unsafe_, async_) == [const_ |-> const_, unsafe_ |-> unsafe_, async_ |-> async_]
ImplInner(generics, trait_, for_, items, is_unsafe, synthetic, blanket_impl) ==
    [tag |-> "Impl", generics |-> generics, trait_ |-> trait_, for_ |-> for_, items |-> items,
     is_unsafe |-> is_unsafe, synthetic |-> synthetic, blanket_impl |-> blanket_impl]

\* Item.attrs of an item rustc marks stable, or unstable
Attrs(stable) ==
    IF stable
    THEN <<S("#[stable(feature = \"rust1\", since = \"1.0.0\")]")>>
    ELSE <<S("#[unstable(feature = \"x\", issue = \"1\")]"), S("#[must_use]")>>

\* generics clauses: none; a lifetime; a bounded type parameter; a const parameter;
\* a bound where-predicate; a lifetime with a region predicate; an equality predicate
GenericsPool ==
    [none |-> Generics(<<>>, <<>>),
     lifetime |-> Generics(<<LifetimeParam(S("'a"))>>, <<>>),
     type |-> Generics(<<TypeParam(S("T"), <<TraitBound(S("Display"), "None")>>, None)>>, <<>>),
     const |-> Generics(<<ConstParam(S("N"), TPrimitive(S("usize")), None)>>, <<>>),
     where |-> Generics(<<>>, <<BoundPredicate(TGeneric(S("Self")),
                                               <<TraitBound(S("Sized"), "None")>>)>>),
     region |-> Generics(<<LifetimeParam(S("'a"))>>,
                         <<RegionPredicate(S("'a"), <<Outlives(S("'static"))>>)>>),
     eq |-> Generics(<<>>, <<EqPredicate(TQualifiedPath(S("Item"), TGeneric(S("Self"))),
                                         TermType(TPrimitive(S("u8"))))>>)]
GenericsNames == DOMAIN GenericsPool

\* a graph of two modules, a trait with a method, a struct and an enum with an
\* inherent impl and two trait impls, two module-level functions and two Imports
Graph(g) ==
    LET fn(id, name, gen, stable) ==
            Item(id, Some(name), Attrs(stable),
                 FunctionInner(GenericsPool[gen], Header(FALSE, FALSE, FALSE), TRUE,
                               <<>>, None))
    IN  [index |->
            ("0:m1" :> Item("0:m1", Some(S("m1")), <<>>, ModuleInner(g.items1)))
         @@ ("0:m2" :> Item("0:m2", Some(S("m2")), <<>>, ModuleInner(g.items2)))
         @@ ("0:t1" :> Item("0:t1", Some(g.nt), Attrs(g.st_t),
                            TraitInner(GenericsPool[g.gt], <<>>, <<"0:f2">>, FALSE, FALSE)))
         @@ ("0:f1" :> fn("0:f1", g.nf1, g.gf1, TRUE))
         @@ ("0:f2" :> fn("0:f2", g.nf2, g.gf2, TRUE))
         @@ ("0:f3" :> fn("0:f3", g.nf3, g.gf3, TRUE))
         @@ ("0:f4" :> fn("0:f4", g.nf4, "none", FALSE))
         @@ ("0:s1" :> Item("0:s1", Some(S("P")), Attrs(g.st_s),
                            StructInner(GenericsPool[g.gs], g.simpls)))
         @@ ("0:e1" :> Item("0:e1", Some(S("E")), Attrs(g.st_e),
                            EnumInner(GenericsPool["none"], g.eimpls)))
         @@ ("0:i1" :> Item("0:i1", None, <<>>,
                            ImplInner(GenericsPool[g.gi1], None, TResolvedPath(S("P")),
                                      <<"0:f3">>, FALSE, g.synthetic1, g.blanket1)))
         @@ ("0:i2" :> Item("0:i2", None, <<>>,
                            ImplInner(GenericsPool["none"], g.tr2, TResolvedPath(S("P")),
                                      g.it2, FALSE, FALSE, None)))
         @@ ("0:i3" :> Item("0:i3", None, <<>>,
                            ImplInner(GenericsPool["none"], g.tr3, TResolvedPath(S("P")),
                                      g.it3, FALSE, FALSE, None)))
         @@ ("0:u1" :> Item("0:u1", Some(S("u1")), <<>>, ImportInner(g.u1)))
         @@ ("0:u2" :> Item("0:u2", Some(S("u2")), <<>>, ImportInner(g.u2))),
         paths |->
            [id \in {"0:m1"} \cup (IF g.p2 = None THEN {} ELSE {"0:m2"}) |->
                IF id = "0:m1" THEN g.p1 ELSE g.p2[1]]]

\* the graph every scenario departs from
DefaultGraph ==
    [p1 |-> <<S("a")>>, p2 |-> Some(<<S("b")>>),
     items1 |-> <<"0:t1", "0:f1", "0:s1", "0:e1">>, items2 |-> <<"0:f4">>,
     nt |-> S("T"), nf1 |-> S("f"), nf2 |-> S("g"), nf3 |-> S("new"), nf4 |-> S("g"),
     st_t |-> TRUE, st_s |-> TRUE, st_e |-> TRUE,
     gt |-> "none", gf1 |-> "none", gf2 |-> "none", gf3 |-> "none", gi1 |-> "none",
     gs |-> "none",
     simpls |-> <<"0:i1", "0:i2", "0:i3">>, eimpls |-> <<>>,
     synthetic1 |-> FALSE, blanket1 |-> None, it3 |-> <<>>,
     tr2 |-> Some(Path(S("T"), "0:t1")), tr3 |-> Some(Path(S("Eq"), "9:1")), it2 |-> <<>>,
     u1 |-> Some("0:f1"), u2 |-> Some("0:t1")]

\* module paths
ModulePaths == {<<S("a")>>, <<S("b")>>, <<S("a"), S("f")>>}

\* where the modules are and what they hold
LayoutGraphs ==
    {[DefaultGraph EXCEPT !.p1 = p1, !.p2 = p2, !.items1 = i1, !.items2 = i2, !.nf1 = n1] :
        p1 \in ModulePaths, p2 \in {None} \cup {Some(q) : q \in ModulePaths},
        i1 \in {<<"0:t1", "0:f1">>, <<"0:f1", "0:u1">>, <<"0:s1", "0:f1">>},
        i2 \in {<<"0:f4">>, <<"0:f1">>, <<"0:t1", "0:e1">>, <<"0:u1", "0:s1">>},
        n1 \in {S("f"), S("g")}}

\* who is stable, and what the impls of the struct implement and hold
StabilityGraphs ==
    {[DefaultGraph EXCEPT !.st_t = t, !.st_s = s, !.st_e = e, !.tr2 = tr2, !.tr3 = tr3,
                          !.it2 = it2, !.simpls = si, !.items1 = <<"0:s1">>] :
        t \in BOOLEAN, s \in BOOLEAN, e \in BOOLEAN,
        tr2 \in {Some(Path(S("T"), "0:t1")), Some(Path(S("T"), "0:u2")),
                  Some(Path(S("Eq"), "9:1"))},
        tr3 \in {Some(Path(S("Eq"), "9:1")), Some(Path(S("U"), "0:t1"))},
        it2 \in {<<>>, <<"0:e1", "0:f3">>},
        si \in {<<"0:i2", "0:i3">>, <<"0:i3", "0:i2">>, <<"0:i1", "0:i3">>}}

\* who has which generics
GenericsGraphs ==
    {[DefaultGraph EXCEPT !.gt = a, !.gf2 = b, !.items1 = <<"0:t1">>] :
        a \in GenericsNames, b \in GenericsNames}
    \cup {[DefaultGraph EXCEPT !.gi1 = a, !.gf3 = b, !.items1 = <<"0:s1">>] :
        a \in GenericsNames, b \in GenericsNames}
    \cup {[DefaultGraph EXCEPT !.gf1 = a, !.gs = b, !.synthetic1 = y] :
        a \in GenericsNames, b \in GenericsNames, y \in BOOLEAN}

\* where the Imports lead
ImportGraphs ==
    {[DefaultGraph EXCEPT !.u1 = a, !.u2 = b, !.items1 = i1] :
        a \in {None, Some("0:f1"), Some("0:t1"), Some("0:s1"), Some("0:u1"), Some("0:u2"),
                Some("9:1")},
        b \in {Some("0:t1"), Some("0:f1"), Some("0:u1")},
        i1 \in {<<"0:u1", "0:f1">>, <<"0:u1", "0:u2", "0:t1", "0:s1">>}}

\* which impls the struct and the enum have, and which of them are inherent
InherentGraphs ==
    {[DefaultGraph EXCEPT !.simpls = si, !.eimpls = ei, !.tr3 = tr3, !.it3 = it3,
                          !.synthetic1 = y, !.blanket1 = b, !.items1 = <<"0:s1", "0:e1">>] :
        si \in {<<"0:i1", "0:i3">>, <<"0:i2", "0:i1">>},
        ei \in {<<>>, <<"0:i1">>, <<"0:i3">>},
        tr3 \in {None, Some(Path(S("Eq"), "9:1"))},
        it3 \in {<<>>, <<"0:f4">>, <<"0:f3", "0:u1">>},
        y \in BOOLEAN,
        b \in {None, Some(TGeneric(S("T")))}}

Graphs ==
    LayoutGraphs \cup StabilityGraphs \cup GenericsGraphs \cup ImportGraphs
        \cup InherentGraphs

Init ==
    /\ \E g \in Graphs : index = Graph(g).index /\ paths = Graph(g).paths
    /\ rpc = "idle"
    /\ rkind = "Trait"
    /\ rids = <<>>
    /\ rpos = 0
    /\ rcur = IdPool[1]
    /\ rdepth = 0
    /\ rvisited = {}
    /\ rout = <<>>
    /\ krate = [slot \in Slots |-> EmptyCrate]
    /\ kstate = [slot \in Slots |-> "unset"]
    /\ pc = "running"
    /\ aitems = <<>>
    /\ acall = [fn |-> "idle"]
    /\ aout = <<0, 0>>
    /\ fcall = [fn |-> "idle"]
    /\ fout = [st |-> "none"]

Next ==
    \/ \E slot \in Slots : FromStr(slot)
    \/ \E self \in Slots, other \in Slots : AppendCall(self, other)

Spec == Init /\ [][Next]_vars

-----------------------------------------------------------------------------
(* The classifier (analyze/mod.rs, and the earlier analyze/const_.rs). *)

\* Item, with the fields the counting reads
AnalyzeItem(stability, path, target_trait, is_const, is_async) ==
    [stability |-> stability, path |-> path, target_trait |-> target_trait,
     is_const |-> is_const, is_async |-> is_async]

\* Stability::is_stable
is_stable(stability) == stability = "Stable"

\* should_exclude_path: the fold over exclude_paths, `should_exclude` its accumulator
RECURSIVE should_exclude_path_fold(_, _, _)
should_exclude_path_fold(target, exclude_paths, should_exclude) ==
    IF exclude_paths = <<>> THEN should_exclude
    ELSE should_exclude_path_fold(target, Tail(exclude_paths),
            IF should_exclude THEN TRUE ELSE starts_with(target, Head(exclude_paths)))

\* should_exclude_path
should_exclude_path_contains(target, exclude_paths) ==
    \E i \in 1..Len(exclude_paths) : contains(target, exclude_paths[i])

should_exclude_path(target, exclude_paths) ==
    should_exclude_path_fold(target, exclude_paths, FALSE)

\* the closures count_items is handed: `|item| false` as should_exclude by both
\* of its callers, `|item| item.is_const` and `|item| item.is_async` as count_current
closure(name, item) ==
    CASE name = "false" -> FALSE
      [] name = "is_const" -> item.is_const
      [] name = "is_async" -> item.is_async

\* count_items, the second filter: what the closure adds to `excluded`
exclude_step_each_test(item, exclude_paths, should_exclude) ==
    (IF should_exclude_path(item.path, exclude_paths) THEN 1 ELSE 0)
        + (IF should_exclude_path(item.target_trait, exclude_paths) THEN 1 ELSE 0)
        + (IF closure(should_exclude, item) THEN 1 ELSE 0)

exclude_step(item, exclude_paths, should_exclude) ==
    IF should_exclude_path(item.path, exclude_paths) THEN 1
    ELSE IF should_exclude_path(item.target_trait, exclude_paths) THEN 1
    ELSE IF closure(should_exclude, item) THEN 1
    ELSE 0

\* count_items, the filter chain over items: <<count, excluded>>
RECURSIVE count_items_loop(_, _, _, _, _, _)
count_items_loop(items, exclude_paths, should_exclude, count_current, count, excluded) ==
    IF items = <<>> THEN <<count, excluded>>
    ELSE IF ~is_stable(Head(items).stability)
    THEN count_items_loop(Tail(items), exclude_paths, should_exclude, count_current,
                          count, excluded)
    ELSE IF exclude_step(Head(items), exclude_paths, should_exclude) > 0
    THEN count_items_loop(Tail(items), exclude_paths, should_exclude, count_current, count,
                          excluded + exclude_step(Head(items), exclude_paths, should_exclude))
    ELSE IF closure(count_current, Head(items))
    THEN count_items_loop(Tail(items), exclude_paths, should_exclude, count_current,
                          count + 1, excluded)
    ELSE count_items_loop(Tail(items), exclude_paths, should_exclude, count_current,
                          count, excluded)

\* count_items
count_items(items, exclude_paths, should_exclude, count_current) ==
    count_items_loop(items, exclude_paths, should_exclude, count_current, 0, 0)

\* count_const_items (analyze/mod.rs): its exclude_paths
const_exclude_paths == <<S("std::os"), S("std::fs"), S("std::net"), S("std::process")>>

\* count_const_items (analyze/mod.rs)
count_const_items(items) == count_items(items, const_exclude_paths, "false", "is_const")

\* count_async_items: its exclude_paths
async_exclude_paths ==
    <<S("core::ops"), S("std::thread"), S("core::any"), S("core::borrow"), S("core::marker"),
      S("core::panic"), S("core::clone"), S("core::default"), S("core::hash::Hash"),
      S("core::convert::AsRef"), S("core::convert::AsMut"), S("core::cmp")>>

\* count_async_items
count_async_items(items) == count_items(items, async_exclude_paths, "false", "is_async")

\* EXCLUDE_PATHS (analyze/const_.rs)
EXCLUDE_PATHS == <<S("std::os"), S("std::fs"), S("std::net"), S("std::process")>>

\* should_exclude (analyze/const_.rs): the fold over EXCLUDE_PATHS
RECURSIVE should_exclude_fold(_, _, _)
should_exclude_fold(target, pats, should_exclude) ==
    IF pats = <<>> THEN should_exclude
    ELSE should_exclude_fold(target, Tail(pats),
            IF should_exclude THEN TRUE ELSE contains(target, Head(pats)))

\* should_exclude (analyze/const_.rs)
should_exclude(target) == should_exclude_fold(target, EXCLUDE_PATHS, FALSE)

\* count_const_items (analyze/const_.rs), the filter chain: <<count, excluded>>
RECURSIVE const_count_const_items_loop(_, _, _)
const_count_const_items_loop(items, count, excluded) ==
    IF items = <<>> THEN <<count, excluded>>
    ELSE IF ~is_stable(Head(items).stability)
    THEN const_count_const_items_loop(Tail(items), count, excluded)
    ELSE IF should_exclude(Head(items).path)
    THEN const_count_const_items_loop(Tail(items), count, excluded + 1)
    ELSE IF Head(items).is_const
    THEN const_count_const_items_loop(Tail(items), count + 1, excluded)
    ELSE const_count_const_items_loop(Tail(items), count, excluded)

\* count_const_items (analyze/const_.rs)
const_count_const_items(items) == const_count_const_items_loop(items, 0, 0)

\* the items the entry points are run on
AnalyzePaths ==
    {S("std::fs::File"), S("std::vec::Vec"), S("my::std::fs::x"), S("std::ostrich::x")}
AnalyzeTraits == {S(""), S("std::fs::Seek"), S("core::cmp::Eq")}
AnalyzeItems ==
    {AnalyzeItem(st, p, t, m[1], m[2]) :
        st \in {"Stable", "Unstable"}, p \in AnalyzePaths, t \in AnalyzeTraits,
        m \in {<<FALSE, FALSE>>, <<TRUE, FALSE>>, <<FALSE, TRUE>>}}

\* the exclude_paths count_items is run with
PrefixLists ==
    {<<>>, <<S("std::fs")>>, <<S("std::vec"), S("std::fs")>>, <<S("core::cmp")>>}

\* a call of count_items
CountItems ==
    /\ acall.fn = "idle"
    /\ \E exclude_paths \in PrefixLists, exclude_closure \in {"false"},
          count_current \in {"is_const", "is_async"} :
            /\ acall' = [fn |-> "count_items", exclude_paths |-> exclude_paths,
                         should_exclude |-> exclude_closure, count_current |-> count_current]
            /\ aout' = count_items(aitems, exclude_paths, exclude_closure, count_current)
    /\ UNCHANGED <<index, paths, rvars, krate, kstate, pc, aitems, fvars>>

\* a call of count_const_items (analyze/mod.rs)
CountConstItems ==
    /\ acall.fn = "idle"
    /\ acall' = [fn |-> "count_const_items", exclude_paths |-> const_exclude_paths,
                 should_exclude |-> "false", count_current |-> "is_const"]
    /\ aout' = count_const_items(aitems)
    /\ UNCHANGED <<index, paths, rvars, krate, kstate, pc, aitems, fvars>>

\* a call of count_async_items
CountAsyncItems ==
    /\ acall.fn = "idle"
    /\ acall' = [fn |-> "count_async_items", exclude_paths |-> async_exclude_paths,
                 should_exclude |-> "false", count_current |-> "is_async"]
    /\ aout' = count_async_items(aitems)
    /\ UNCHANGED <<index, paths, rvars, krate, kstate, pc, aitems, fvars>>

\* a call of count_const_items (analyze/const_.rs)
ConstCountConstItems ==
    /\ acall.fn = "idle"
    /\ acall' = [fn |-> "const_::count_const_items", exclude_paths |-> EXCLUDE_PATHS,
                 should_exclude |-> "false", count_current |-> "is_const"]
    /\ aout' = const_count_const_items(aitems)
    /\ UNCHANGED <<index, paths, rvars, krate, kstate, pc, aitems, fvars>>

InitAnalyze ==
    /\ aitems \in UNION {[1..n -> AnalyzeItems] : n \in 0..MaxItems}
    /\ acall = [fn |-> "idle"]
    /\ aout = <<0, 0>>
    /\ fcall = [fn |-> "idle"]
    /\ fout = [st |-> "none"]
    /\ index = <<>>
    /\ paths = <<>>
    /\ rpc = "idle"
    /\ rkind = "Trait"
    /\ rids = <<>>
    /\ rpos = 0
    /\ rcur = IdPool[1]
    /\ rdepth = 0
    /\ rvisited = {}
    /\ rout = <<>>
    /\ krate = [slot \in Slots |-> EmptyCrate]
    /\ kstate = [slot \in Slots |-> "unset"]
    /\ pc = "running"

NextAnalyze ==
    \/ CountItems
    \/ CountConstItems
    \/ CountAsyncItems
    \/ ConstCountConstItems

SpecAnalyze == InitAnalyze /\ [][NextAnalyze]_vars

-----------------------------------------------------------------------------
(* The formatter of main.rs, where it differs from the one of lib.rs. *)

\* format_type (main.rs)
main_format_type(ty) ==
    IF ty.tag = "Generic" THEN ty.name
    ELSE S("<cannot format type: ") \o DebugType(ty) \o S(">")

\* format_term (main.rs)
main_format_term(term) ==
    CASE term.tag = "Type" -> main_format_type(term.type_)
      [] term.tag = "Constant" -> format_constant(term)

\* format_generic_params (main.rs): one parameter that is not `continue`d
main_format_generic_param(param) ==
    CASE param.kind.tag = "Type" ->
            param.name
                \o format_generic_bounds(param.kind.bounds)
                \o (IF param.kind.default # None
                    THEN S(" = ") \o main_format_type(param.kind.default[1])
                    ELSE S(""))
      [] param.kind.tag = "Const" ->
            IF param.kind.default # None
            THEN S("const ") \o param.name \o S(": ") \o DebugType(param.kind.type_)
                    \o S(" = ") \o param.kind.default[1]
            ELSE S("const ") \o param.name \o S(": ") \o DebugType(param.kind.type_)

\* format_generic_params (main.rs): `match out.len()`
main_format_generic_params_out(kept) ==
    IF Len(kept) = 0
    THEN S("")
    ELSE S("<")
            \o join([i \in 1..Len(kept) |-> main_format_generic_param(kept[i])], S(", "))
            \o S(">")

\* format_generic_params (main.rs): lifetimes and synthetic type parameters are skipped
main_format_generic_params(params) ==
    main_format_generic_params_out(
        SelectSeq(params, LAMBDA q : /\ q.kind.tag # "Lifetime"
                                     /\ ~(q.kind.tag = "Type" /\ q.kind.synthetic)))

\* format_where_bounds (main.rs): the loop reaches the `todo!()` arm
main_format_where_bounds_todo(predicates) ==
    \E i \in 1..Len(predicates) : predicates[i].tag = "RegionPredicate"

\* format_where_bounds (main.rs): one predicate of the arms that push
main_format_where_bound(pred) ==
    CASE pred.tag = "BoundPredicate" ->
            main_format_type(pred.type_) \o S(": ") \o format_generic_bounds(pred.bounds)
      [] pred.tag = "EqPredicate" ->
            main_format_type(pred.lhs) \o S(" = ") \o main_format_term(pred.rhs)

\* format_where_bounds (main.rs), when no predicate panics
main_format_where_bounds(predicates) ==
    IF Len(predicates) = 0
    THEN S("")
    ELSE S("where ")
            \o join([i \in 1..Len(predicates) |-> main_format_where_bound(predicates[i])],
                    S(", "))

\* format_trait (main.rs), when format_where_bounds returns
main_format_trait(name, trait_) ==
       (IF trait_.is_unsafe THEN S("unsafe ") ELSE S(""))
    \o (IF trait_.is_auto THEN S("auto ") ELSE S(""))
    \o S("trait ") \o name
    \o main_format_generic_params(trait_.generics.params)
    \o format_generic_bounds(trait_.bounds)
    \o S(" ")
    \o main_format_where_bounds(trait_.generics.where_predicates)
    \o S("{ }")

-----------------------------------------------------------------------------
(* The formatter, called on declarations. *)

\* rustdoc_types::Type, one or two values of every variant
FormatTypes ==
    {TGeneric(S("T")), TPrimitive(S("i32")), TResolvedPath(S("Point")),
     TBorrowedRef(None, FALSE, TGeneric(S("T"))),
     TBorrowedRef(Some(S("'a")), TRUE, TPrimitive(S("u8"))),
     TQualifiedPath(S("Item"), TGeneric(S("T"))),
     [tag |-> "Tuple", elems |-> <<TPrimitive(S("i32")), TGeneric(S("T"))>>],
     [tag |-> "Slice", type_ |-> TPrimitive(S("u8"))],
     [tag |-> "RawPointer", mutable |-> TRUE, type_ |-> TGeneric(S("T"))],
     [tag |-> "RawPointer", mutable |-> FALSE, type_ |-> TPrimitive(S("u8"))],
     [tag |-> "FunctionPointer"],
     [tag |-> "DynTrait", traits |-> <<S("Any"), S("Send")>>],
     [tag |-> "ImplTrait", bounds |-> <<TraitBound(S("Display"), "None")>>],
     [tag |-> "Array", type_ |-> TPrimitive(S("u8")), len |-> S("4")],
     [tag |-> "Infer"]}

\* Vec<GenericBound>
FormatBounds ==
    {<<>>, <<TraitBound(S("Clone"), "None")>>,
     <<TraitBound(S("Sized"), "Maybe"), Outlives(S("'a"))>>,
     <<TraitBound(S("Drop"), "MaybeConst"), TraitBound(S("Copy"), "None")>>}

\* Generics::where_predicates
FormatWheres ==
    {<<>>,
     <<BoundPredicate(TGeneric(S("A")), <<TraitBound(S("Clone"), "None")>>)>>,
     <<RegionPredicate(S("'a"), <<Outlives(S("'b"))>>)>>,
     <<EqPredicate(TGeneric(S("T")), [tag |-> "Constant"])>>}
    \cup {<<BoundPredicate(ty, b),
            EqPredicate(TBorrowedRef(None, FALSE, TGeneric(S("U"))), TermType(ty))>> :
            ty \in {TGeneric(S("T")), TPrimitive(S("i32")), [tag |-> "Infer"]},
            b \in FormatBounds}

\* Generics::params
FormatParams ==
    {<<>>,
     <<TypeParam(S("A"), <<TraitBound(S("Display"), "None")>>, None),
       TypeParam(S("B"), <<>>, None)>>,
     <<LifetimeParam(S("'a")), TypeParam(S("T"), <<>>, Some(TPrimitive(S("u8"))))>>,
     <<[TypeParam(S("impl Any"), <<>>, None) EXCEPT !.kind.synthetic = TRUE],
       ConstParam(S("N"), TPrimitive(S("usize")), Some(S("4")))>>}

\* the calls of the formatter
FormatCalls ==
    {[fn |-> "format_function", name |-> n,
      def |-> FunctionInner(Generics(p, <<>>), Header(h[1], h[2], h[3]), b, i, o)] :
        n \in {S("name"), S("merge_sort")},
        p \in {<<>>, <<TypeParam(S("T"), <<>>, None)>>},
        h \in BOOLEAN \X BOOLEAN \X BOOLEAN, b \in BOOLEAN,
        i \in {<<>>, <<<<S("x"), TPrimitive(S("i32"))>>>>,
                <<<<S("self"), TBorrowedRef(None, TRUE, TGeneric(S("Self")))>>,
                  <<S("x"), [tag |-> "Infer"]>>>>},
        o \in {None, Some(TPrimitive(S("i32")))}}
    \cup {[fn |-> f, name |-> S("Name"),
           def |-> TraitInner(Generics(p, w), b, <<>>, a, u)] :
        f \in {"format_trait", "main::format_trait"},
        p \in FormatParams, w \in FormatWheres,
        b \in {<<>>, <<TraitBound(S("Sized"), "None")>>}, a \in BOOLEAN, u \in BOOLEAN}
    \cup {[fn |-> f, name |-> S("Point"), def |-> StructInner(Generics(p, w), <<>>)] :
        f \in {"format_struct", "format_enum"}, p \in FormatParams, w \in FormatWheres}
    \cup {[fn |-> "format_impl", name |-> S(""),
           def |-> ImplInner(Generics(p, <<>>), t, ty, <<>>, u, FALSE, None)] :
        p \in {<<>>, <<TypeParam(S("T"), <<>>, None)>>},
        t \in {None, Some(Path(S("Eq"), "9:1"))}, ty \in FormatTypes, u \in BOOLEAN}

\* a call returns its text
Returns(text) == fout' = [st |-> "returned", text |-> text]

\* format_function
FormatFunction ==
    /\ fcall.fn = "format_function" /\ fout.st = "none"
    /\ Returns(format_function(fcall.name, fcall.def))
    /\ UNCHANGED <<index, paths, rvars, krate, kstate, pc, avars, fcall>>

\* format_trait
FormatTrait ==
    /\ fcall.fn = "format_trait" /\ fout.st = "none"
    /\ Returns(format_trait(fcall.name, fcall.def))
    /\ UNCHANGED <<index, paths, rvars, krate, kstate, pc, avars, fcall>>

\* format_struct
FormatStruct ==
    /\ fcall.fn = "format_struct" /\ fout.st = "none"
    /\ Returns(format_struct(fcall.name, fcall.def))
    /\ UNCHANGED <<index, paths, rvars, krate, kstate, pc, avars, fcall>>

\* format_enum
FormatEnum ==
    /\ fcall.fn = "format_enum" /\ fout.st = "none"
    /\ Returns(format_enum(fcall.name, fcall.def))
    /\ UNCHANGED <<index, paths, rvars, krate, kstate, pc, avars, fcall>>

\* format_impl
FormatImpl ==
    /\ fcall.fn = "format_impl" /\ fout.st = "none"
    /\ Returns(format_impl(fcall.def))
    /\ UNCHANGED <<index, paths, rvars, krate, kstate, pc, avars, fcall>>

\* format_trait (main.rs): a region predicate ends the process in `todo!()`
MainFormatTrait ==
    /\ fcall.fn = "main::format_trait" /\ fout.st = "none"
    /\ IF main_format_where_bounds_todo(fcall.def.generics.where_predicates)
       THEN fout' = [st |-> "panicked"] /\ pc' = "aborted"
       ELSE Returns(main_format_trait(fcall.name, fcall.def)) /\ pc' = pc
    /\ UNCHANGED <<index, paths, rvars, krate, kstate, avars, fcall>>

InitFormat ==
    /\ fcall \in FormatCalls
    /\ fout = [st |-> "none"]
    /\ aitems = <<>>
    /\ acall = [fn |-> "idle"]
    /\ aout = <<0, 0>>
    /\ index = <<>>
    /\ paths = <<>>
    /\ rpc = "idle"
    /\ rkind = "Trait"
    /\ rids = <<>>
    /\ rpos = 0
    /\ rcur = IdPool[1]
    /\ rdepth = 0
    /\ rvisited = {}
    /\ rout = <<>>
    /\ krate = [slot \in Slots |-> EmptyCrate]
    /\ kstate = [slot \in Slots |-> "unset"]
    /\ pc = "running"

NextFormat ==
    \/ FormatFunction
    \/ FormatTrait
    \/ FormatStruct
    \/ FormatEnum
    \/ FormatImpl
    \/ MainFormatTrait

SpecFormat == InitFormat /\ [][NextFormat]_vars

-----------------------------------------------------------------------------
(* Alias chains, stated on the index alone. *)

\* a is an Import whose target is b
ImportsTo(a, b) ==
    /\ a \in DOMAIN index
    /\ index[a].inner.tag = "Import"
    /\ index[a].inner.id = Some(b)

AllIds ==
    DOMAIN index \cup ResolveIds
        \cup {index[i].inner.id[1] :
                i \in {j \in DOMAIN index : index[j].inner.tag = "Import" /\ index[j].inner.id # None}}

\* the longest chain id0 -> id1 -> ... of Import aliases that starts at id and visits
\* no id of `seen` and no id twice
RECURSIVE MaxChain(_, _)
MaxChain(id, seen) ==
    IF \E t \in AllIds \ (seen \cup {id}) : ImportsTo(id, t)
    THEN <<id>> \o MaxChain(CHOOSE t \in AllIds : ImportsTo(id, t), seen \cup {id})
    ELSE <<id>>

\* the chains id0 -> id1 -> ... of Import aliases that start at id and visit no id
\* twice: an Import has one target, so they are the prefixes of the longest one
AcyclicChains(id) ==
    {SubSeq(MaxChain(id, {}), 1, n) : n \in 1..Len(MaxChain(id, {}))}

Last(c) == c[Len(c)]

\* the chain ends at a definition of the kind
EndsAtKind(c, kind) ==
    /\ Last(c) \in DOMAIN index
    /\ index[Last(c)].inner.tag = kind

\* the chain ends without a definition of the kind: the id is absent, the item is
\* of another kind, or it is an Import without a target
EndsUnresolved(c, kind) ==
    \/ Last(c) \notin DOMAIN index
    \/ index[Last(c)].inner.tag \notin {kind, "Import"}
    \/ index[Last(c)].inner.tag = "Import" /\ index[Last(c)].inner.id = None

Resolves(id, kind) == \E c \in AcyclicChains(id) : EndsAtKind(c, kind)

TerminalOf(id, kind) == index[Last(CHOOSE c \in AcyclicChains(id) : EndsAtKind(c, kind))]

\* the chain from id comes back to an id it has visited
Cyclic(id) ==
    \E c \in AcyclicChains(id) : \E k \in 1..Len(c) : ImportsTo(Last(c), c[k])

RECURSIVE MapTerminal(_, _)
MapTerminal(ids, kind) ==
    IF ids = <<>> THEN <<>>
    ELSE IF Resolves(Head(ids), kind)
         THEN <<TerminalOf(Head(ids), kind)>> \o MapTerminal(Tail(ids), kind)
         ELSE MapTerminal(Tail(ids), kind)

-----------------------------------------------------------------------------
(* The resolver claims. *)

\* C1: when a chain of Import aliases leads back to an id already visited in the same
\* resolution, the resolution has ended without a result: no frame is ever entered
\* for an id that an outer frame of the same resolution holds, and the recursion
\* never exhausts the stack.
C1_CycleEndsUnresolved ==
    /\ rpc # "overflow"
    /\ rpc = "call" => rcur \notin rvisited

\* C2: when find_<kind>s has returned, every requested id that starts an acyclic
\* chain of N >= 0 Import aliases ending at a definition of the requested kind has
\* contributed exactly the item stored under the last id of the chain.
C2_AliasChainResolves ==
    rpc = "done" =>
        \A p \in 1..Len(rids) :
            \A c \in AcyclicChains(rids[p]) :
                EndsAtKind(c, rkind) =>
                    /\ index[Last(c)] \in Range(rout)
                    /\ Len(rids) = 1 => rout = <<index[Last(c)]>>

\* a resolution through two aliases has returned
C2_Witness ==
    /\ rpc = "done"
    /\ \E p \in 1..Len(rids) :
         \E c \in AcyclicChains(rids[p]) : Len(c) = 3 /\ EndsAtKind(c, rkind)

\* C3: the Vec a resolver returns holds only items of the requested kind (never an
\* Import), namely the terminals of the ids that resolve, in the order of `ids`; an
\* id that is absent, ends at another kind or at an Import without a target is
\* skipped, and only a cyclic chain makes the recursion run out of stack.
C3_OnlyRequestedKindInOrder ==
    /\ rpc = "done" =>
        /\ \A i \in 1..Len(rout) : rout[i].inner.tag = rkind
        /\ rout = MapTerminal(rids, rkind)
    /\ rpc = "overflow" =>
        ~ \E c \in AcyclicChains(rids[rpos]) : EndsAtKind(c, rkind) \/ EndsUnresolved(c, rkind)

\* a list whose first id is skipped and whose second id resolves has been answered
C3_Witness ==
    /\ rpc = "done"
    /\ Len(rids) = 2
    /\ \E c \in AcyclicChains(rids[1]) : EndsUnresolved(c, rkind)
    /\ Resolves(rids[2], rkind)
    /\ Len(rout) = 1

-----------------------------------------------------------------------------
(* The denormalizer's output, stated on the index alone. *)

Collections == {"traits", "structs", "enums", "impls", "functions"}

\* the Crates that are as from_str returned them
Loaded == {slot \in Slots : kstate[slot] = "loaded"}

\* the modules from_str visits, and the path of each
PathedModules == {m \in DOMAIN index : index[m].inner.tag = "Module" /\ m \in DOMAIN paths}
ModulePath(m) == join(paths[m], S("::"))

\* the items of a kind that a list of ids leads to
Terminals(ids, kind) == {TerminalOf(id, kind) : id \in {j \in Range(ids) : Resolves(j, kind)}}

\* the item carries a #[stable ..] attribute
MarkedStable(item) == \E i \in 1..Len(item.attrs) : contains(item.attrs[i], S("#[stable"))

\* the clause has a type or const parameter, or a bound where-predicate
OwnGenerics(generics) ==
    \/ \E i \in 1..Len(generics.params) : generics.params[i].kind.tag \in {"Type", "Const"}
    \/ \E i \in 1..Len(generics.where_predicates) :
            generics.where_predicates[i].tag = "BoundPredicate"

\* an impl block without a trait, neither synthetic nor blanket
Inherent(impl_) == impl_.trait_ = None /\ ~impl_.synthetic /\ impl_.blanket_impl = None

\* the structs and enums a module lists
Owners(m) ==
    Terminals(index[m].inner.items, "Struct") \cup Terminals(index[m].inner.items, "Enum")

\* every way a function is reached: at module level, as the member of a trait, or
\* as the member of an inherent impl of a struct or enum; with the path of the
\* enclosing scope, and whether the enclosing block has generics
FunctionOrigins ==
    UNION {
        {[item |-> f, scope |-> ModulePath(m), parent |-> FALSE] :
            f \in Terminals(index[m].inner.items, "Function")}
        \cup UNION {
            {[item |-> f, scope |-> ModulePath(m) \o S("::") \o t.name[1],
              parent |-> OwnGenerics(t.inner.generics)] :
                f \in Terminals(t.inner.items, "Function")} :
            t \in Terminals(index[m].inner.items, "Trait")}
        \cup UNION {
            UNION {
                {[item |-> f, scope |-> ModulePath(m) \o S("::") \o o.name[1],
                  parent |-> OwnGenerics(i.inner.generics)] :
                    f \in Terminals(i.inner.items, "Function")} :
                i \in {j \in Terminals(o.inner.impls, "Impl") : Inherent(j.inner)}} :
            o \in Owners(m)} :
        m \in PathedModules}

\* every way a trait, struct or enum is reached: listed by a module
ModuleLevelOrigins(kind) ==
    UNION {{[item |-> t, scope |-> ModulePath(m)] : t \in Terminals(index[m].inner.items, kind)} :
            m \in PathedModules}

\* every way a trait impl is reached: among the impls of a struct or enum a module
\* lists; `before` are the impls of the owner in front of it
ImplsOf(o) ==
    SelectSeq(o.inner.impls, LAMBDA id : Resolves(id, "Impl"))
TraitImplOrigins ==
    UNION {
        UNION {
            {[item |-> TerminalOf(ImplsOf(o)[k], "Impl"), owner |-> o, scope |-> ModulePath(m),
              before |-> [j \in 1..(k - 1) |-> TerminalOf(ImplsOf(o)[j], "Impl")]] :
                k \in {j \in 1..Len(ImplsOf(o)) :
                        TerminalOf(ImplsOf(o)[j], "Impl").inner.trait_ # None}} :
            o \in Owners(m)} :
        m \in PathedModules}

\* the causes an impl block itself has to be unstable: a member, or its trait
PromotedByMembers(impl_) == \E e \in Terminals(impl_.items, "Enum") : ~MarkedStable(e)
PromotedByTrait(impl_) ==
    /\ impl_.trait_ # None
    /\ Resolves(impl_.trait_[1].id, "Trait")
    /\ ~MarkedStable(TerminalOf(impl_.trait_[1].id, "Trait"))

\* a, b are neighbours in the order of the three fields
KeyLeq(a, b) ==
    \/ StrCmp(a[1], b[1]) < 0
    \/ StrCmp(a[1], b[1]) = 0 /\ StrCmp(a[2], b[2]) < 0
    \/ StrCmp(a[1], b[1]) = 0 /\ StrCmp(a[2], b[2]) = 0 /\ StrCmp(a[3], b[3]) <= 0

NoEqualRecords(v) == \A i, j \in 1..Len(v) : i # j => v[i] # v[j]

-----------------------------------------------------------------------------
(* The denormalizer claims. *)

\* C4 as claimed: after from_str every collection is free of equal records and
\* ordered by the key (kind, path, name).
C4_OrderedByKindPathName ==
    \A slot \in Loaded : \A f \in Collections :
        LET v == krate[slot][f]
        IN  /\ NoEqualRecords(v)
            /\ \A i \in 1..(Len(v) - 1) :
                    KeyLeq(<<v[i].kind, v[i].path, v[i].name>>,
                           <<v[i + 1].kind, v[i + 1].path, v[i + 1].name>>)

\* C4 amended: after from_str every collection is free of equal records and ordered
\* by the key (kind, name, path): the name is compared before the path.
C4_OrderedByKindNamePath ==
    \A slot \in Loaded : \A f \in Collections :
        LET v == krate[slot][f]
        IN  /\ NoEqualRecords(v)
            /\ \A i \in 1..(Len(v) - 1) :
                    KeyLeq(<<v[i].kind, v[i].name, v[i].path>>,
                           <<v[i + 1].kind, v[i + 1].name, v[i + 1].path>>)

\* from_str has returned a collection in which two neighbours are in name order
\* and not in path order, built from pushes that held a record twice
C4_Witness ==
    \E slot \in Loaded :
        LET v == krate[slot].functions
            raw == from_str_loop(EmptyOutput, modules(CHOOSE o \in HashOrders : TRUE)).functions
        IN  /\ \E i \in 1..(Len(v) - 1) :
                    StrCmp(v[i].name, v[i + 1].name) < 0 /\ StrCmp(v[i].path, v[i + 1].path) > 0
            /\ ~NoEqualRecords(raw)

\* C5: an append moves every collection of other behind the one of self and leaves
\* every collection of other empty.
C5_AppendMovesEveryCollection ==
    [][\A self \in Slots, other \in Slots :
            AppendCall(self, other) =>
                \A f \in Collections :
                    /\ krate'[other][f] = <<>>
                    /\ krate'[self][f] = krate[self][f] \o krate[other][f]]_vars

\* C6: two runs of from_str on the same index return the same Crate, whatever the
\* order in which the index yielded its modules.
C6_FromStrDeterministic ==
    \A a \in Loaded, b \in Loaded : krate[a] = krate[b]

\* two runs have returned, on an index with two modules of the same path that hold
\* different items, so that the sort by path leaves their order to the index
C6_Witness ==
    /\ Loaded = Slots
    /\ \E m \in PathedModules, n \in PathedModules :
            /\ m # n
            /\ ModulePath(m) = ModulePath(n)
            /\ index[m].inner.items # index[n].inner.items
    /\ Len(krate["core"].functions) >= 2

\* C7: the record of a trait impl is unstable when the owner is not marked stable,
\* when the implemented trait resolves to a trait not marked stable, or when a member
\* id of the impl resolves to an enum not marked stable; and the record of an impl
\* of a stable owner is stable when neither its own trait or members nor those of an
\* impl in front of it in the owner's list say otherwise.
C7_TraitImplStability ==
    \A slot \in Loaded : \A o \in TraitImplOrigins :
        LET impl_ == o.item.inner
            trait_ == impl_.trait_[1]
            unstable_trait ==
                /\ Resolves(trait_.id, "Trait")
                /\ ~MarkedStable(TerminalOf(trait_.id, "Trait"))
            unstable_member == \E e \in Terminals(impl_.items, "Enum") : ~MarkedStable(e)
            Emitted(stability) ==
                \E r \in Range(krate[slot].impls) :
                    /\ r.name = trait_.name
                    /\ r.path = o.scope
                    /\ r.decl = format_impl(impl_)
                    /\ r.stability = stability
        IN  /\ (~MarkedStable(o.owner) \/ unstable_trait \/ unstable_member)
                    => Emitted("Unstable")
            /\ (/\ MarkedStable(o.owner) /\ ~unstable_trait /\ ~unstable_member
                /\ \A k \in 1..Len(o.before) :
                        ~PromotedByMembers(o.before[k].inner) /\ ~PromotedByTrait(o.before[k].inner))
                    => Emitted("Stable")

\* from_str has returned the record of an impl of a stable owner, promoted by its
\* unstable trait
C7_Witness ==
    \E slot \in Loaded : \E o \in TraitImplOrigins :
        /\ MarkedStable(o.owner)
        /\ Terminals(o.item.inner.items, "Enum") = {}
        /\ Resolves(o.item.inner.trait_[1].id, "Trait")
        /\ ~MarkedStable(TerminalOf(o.item.inner.trait_[1].id, "Trait"))
        /\ \E r \in Range(krate[slot].impls) :
                r.name = o.item.inner.trait_[1].name /\ r.stability = "Unstable"

\* C8: an impl whose trait does not resolve in the index still has its record, and
\* the record is stable when nothing else made it unstable: the owner is marked
\* stable, no member of the impl is an unstable enum, and no impl in front of it in
\* the owner's list was promoted; and from_str aborts only on a cyclic alias chain.
C8_UnresolvedTraitIsStable ==
    /\ \A slot \in Loaded : \A o \in TraitImplOrigins :
        LET impl_ == o.item.inner
            trait_ == impl_.trait_[1]
            Emitted(stabilities) ==
                \E r \in Range(krate[slot].impls) :
                    /\ r.name = trait_.name
                    /\ r.path = o.scope
                    /\ r.decl = format_impl(impl_)
                    /\ r.stability \in stabilities
        IN  ~Resolves(trait_.id, "Trait") =>
                /\ Emitted({"Stable", "Unstable"})
                /\ (/\ MarkedStable(o.owner)
                    /\ ~PromotedByMembers(impl_)
                    /\ \A k \in 1..Len(o.before) :
                            ~PromotedByMembers(o.before[k].inner)
                                /\ ~PromotedByTrait(o.before[k].inner))
                        => Emitted({"Stable"})
    /\ pc = "aborted" => \E id \in DOMAIN index : Cyclic(id)

\* from_str has returned the stable record of an impl of a trait the index lacks
C8_Witness ==
    \E slot \in Loaded : \E o \in TraitImplOrigins :
        /\ o.item.inner.trait_[1].id \notin DOMAIN index
        /\ MarkedStable(o.owner)
        /\ \E r \in Range(krate[slot].impls) :
                /\ r.name = o.item.inner.trait_[1].name
                /\ r.path = o.scope
                /\ r.stability = "Stable"

\* C9 as claimed: the path of a record never ends with "::" and the record's name.
C9_PathNeverEndsWithName ==
    \A slot \in Loaded : \A f \in Collections : \A r \in Range(krate[slot][f]) :
        ~ends_with(r.path, S("::") \o r.name)

\* C9 amended: the path of a record is the path of the scope the item was reached
\* in, without the item's name: the module's path for traits, structs, enums, trait
\* impls and module-level functions, the module's path with "::" and the owner's
\* name for the functions of a trait or of an inherent impl; and every item reached
\* has such a record.
C9_PathIsScopePath ==
    \A slot \in Loaded :
        /\ \A r \in Range(krate[slot].functions) :
                \E o \in FunctionOrigins : r.name = o.item.name[1] /\ r.path = o.scope
        /\ \A o \in FunctionOrigins :
                \E r \in Range(krate[slot].functions) : r.name = o.item.name[1] /\ r.path = o.scope
        /\ \A r \in Range(krate[slot].traits) :
                \E o \in ModuleLevelOrigins("Trait") : r.name = o.item.name[1] /\ r.path = o.scope
        /\ \A o \in ModuleLevelOrigins("Trait") :
                \E r \in Range(krate[slot].traits) : r.name = o.item.name[1] /\ r.path = o.scope
        /\ \A r \in Range(krate[slot].structs) :
                \E o \in ModuleLevelOrigins("Struct") : r.name = o.item.name[1] /\ r.path = o.scope
        /\ \A o \in ModuleLevelOrigins("Struct") :
                \E r \in Range(krate[slot].structs) : r.name = o.item.name[1] /\ r.path = o.scope
        /\ \A r \in Range(krate[slot].enums) :
                \E o \in ModuleLevelOrigins("Enum") : r.name = o.item.name[1] /\ r.path = o.scope
        /\ \A o \in ModuleLevelOrigins("Enum") :
                \E r \in Range(krate[slot].enums) : r.name = o.item.name[1] /\ r.path = o.scope
        /\ \A r \in Range(krate[slot].impls) :
                \E o \in TraitImplOrigins :
                    r.name = o.item.inner.trait_[1].name /\ r.path = o.scope
        /\ \A o \in TraitImplOrigins :
                \E r \in Range(krate[slot].impls) :
                    r.name = o.item.inner.trait_[1].name /\ r.path = o.scope

\* from_str has returned the records of a module-level function, of a trait's
\* function and of an inherent impl's function, one of them in a scope of its name
C9_Witness ==
    \E slot \in Loaded :
        /\ \E r \in Range(krate[slot].functions) : ends_with(r.path, S("::") \o r.name)
        /\ \E o \in FunctionOrigins : o.scope \notin {ModulePath(m) : m \in PathedModules}
        /\ \E o \in FunctionOrigins : o.scope \in {ModulePath(m) : m \in PathedModules}

\* C10: a function has a record with has_generics set exactly when its own clause
\* has a type or const parameter or a bound where-predicate, or the trait or impl
\* block it was reached through has; the record of a trait, struct, enum or trait
\* impl has it set exactly when its own clause has; no record has it set otherwise.
C10_HasGenerics ==
    \A slot \in Loaded :
        /\ \A o \in FunctionOrigins :
                \E r \in Range(krate[slot].functions) :
                    /\ r.name = o.item.name[1]
                    /\ r.path = o.scope
                    /\ r.decl = format_function(o.item.name[1], o.item.inner)
                    /\ r.has_generics = (OwnGenerics(o.item.inner.generics) \/ o.parent)
        /\ \A r \in Range(krate[slot].functions) :
                \E o \in FunctionOrigins :
                    /\ r.name = o.item.name[1]
                    /\ r.path = o.scope
                    /\ r.decl = format_function(o.item.name[1], o.item.inner)
                    /\ r.has_generics = (OwnGenerics(o.item.inner.generics) \/ o.parent)
        /\ \A f \in {"traits", "structs", "enums"} : \A r \in Range(krate[slot][f]) :
                \E o \in ModuleLevelOrigins(
                            CASE f = "traits" -> "Trait" [] f = "structs" -> "Struct"
                              [] f = "enums" -> "Enum") :
                    /\ r.name = o.item.name[1]
                    /\ r.path = o.scope
                    /\ r.has_generics = OwnGenerics(o.item.inner.generics)
        /\ \A r \in Range(krate[slot].impls) :
                \E o \in TraitImplOrigins :
                    /\ r.name = o.item.inner.trait_[1].name
                    /\ r.path = o.scope
                    /\ r.has_generics = OwnGenerics(o.item.inner.generics)

\* from_str has returned the record of a function that has only a lifetime
\* parameter, with the flag set because its trait has a type parameter
C10_Witness ==
    \E slot \in Loaded : \E o \in FunctionOrigins :
        /\ o.parent
        /\ o.item.inner.generics.params # <<>>
        /\ ~OwnGenerics(o.item.inner.generics)
        /\ \E r \in Range(krate[slot].functions) :
                r.name = o.item.name[1] /\ r.path = o.scope /\ r.has_generics

\* the member ids of the inherent impls of an owner that lead to functions, as
\* <<position of the impl among the owner's impls, position of the id in it>>
InherentFunctions(o) ==
    UNION {{<<k, j>> : j \in {i \in 1..Len(TerminalOf(ImplsOf(o)[k], "Impl").inner.items) :
                                Resolves(TerminalOf(ImplsOf(o)[k], "Impl").inner.items[i],
                                         "Function")}} :
            k \in {i \in 1..Len(ImplsOf(o)) : Inherent(TerminalOf(ImplsOf(o)[i], "Impl").inner)}}

\* the impls of an owner that are not inherent and hold a function
OtherImplsWithFunctions(o) ==
    {i \in Terminals(o.inner.impls, "Impl") :
        ~Inherent(i.inner) /\ Terminals(i.inner.items, "Function") # {}}

\* C11: the record of a struct or enum has as fn_count the number of member ids of
\* its inherent impls (no trait, not synthetic, not blanket) that lead to functions;
\* each such function has exactly one function record, at the owner's path followed
\* by "::" and the owner's name; and a function record at that path always comes
\* from an inherent impl, never from a trait, synthetic or blanket impl.
C11_FnCountIsInherentOnly ==
    \A slot \in Loaded :
        /\ \A m \in PathedModules : \A o \in Owners(m) :
            /\ \E r \in Range(IF o.inner.tag = "Struct"
                               THEN krate[slot].structs ELSE krate[slot].enums) :
                    /\ r.name = o.name[1]
                    /\ r.path = ModulePath(m)
                    /\ r.fn_count = Cardinality(InherentFunctions(o))
            /\ \A p \in InherentFunctions(o) :
                    LET impl_ == TerminalOf(ImplsOf(o)[p[1]], "Impl").inner
                        f == TerminalOf(impl_.items[p[2]], "Function")
                    IN  Cardinality({i \in 1..Len(krate[slot].functions) :
                            /\ krate[slot].functions[i].name = f.name[1]
                            /\ krate[slot].functions[i].path
                                    = ModulePath(m) \o S("::") \o o.name[1]
                            /\ krate[slot].functions[i].decl = format_function(f.name[1], f.inner)
                            /\ krate[slot].functions[i].has_generics
                                    = (OwnGenerics(f.inner.generics) \/ OwnGenerics(impl_.generics))
                            /\ krate[slot].functions[i].stability
                                    = (IF MarkedStable(f) THEN "Stable" ELSE "Unstable")}) = 1
            /\ \A r \in Range(krate[slot].functions) :
                    r.path = ModulePath(m) \o S("::") \o o.name[1] =>
                        \E q \in Owners(m) : \E p \in InherentFunctions(q) :
                            /\ q.name = o.name
                            /\ r.name = TerminalOf(TerminalOf(ImplsOf(q)[p[1]], "Impl")
                                                        .inner.items[p[2]], "Function").name[1]
        /\ \A r \in Range(krate[slot].structs) \cup Range(krate[slot].enums) :
                \E m \in PathedModules : \E o \in Owners(m) :
                    /\ r.name = o.name[1]
                    /\ r.path = ModulePath(m)
                    /\ r.fn_count = Cardinality(InherentFunctions(o))

\* from_str has returned the record of an owner that counts the functions of its
\* inherent impl and has another impl, with a function, that is not counted
C11_Witness ==
    \E slot \in Loaded : \E m \in PathedModules : \E o \in Owners(m) :
        /\ Cardinality(InherentFunctions(o)) >= 1
        /\ OtherImplsWithFunctions(o) # {}
        /\ \E r \in Range(krate[slot].structs) \cup Range(krate[slot].enums) :
                r.name = o.name[1] /\ r.fn_count = Cardinality(InherentFunctions(o))

-----------------------------------------------------------------------------
(* The classifier's counts. *)

\* the calls that go through count_items of analyze/mod.rs
ModCalls == {"count_items", "count_const_items", "count_async_items"}

\* positions of the stable items of the slice
StableItems == {i \in DOMAIN aitems : aitems[i].stability = "Stable"}

\* target begins with one of the configured entries
BeginsWithEntry(target, entries) ==
    \E k \in DOMAIN entries :
        /\ Len(entries[k]) <= Len(target)
        /\ \A c \in DOMAIN entries[k] : target[c] = entries[k][c]

\* positions of the stable items whose path or trait path begins with an entry
ExcludedItems ==
    {i \in StableItems :
        \/ BeginsWithEntry(aitems[i].path, acall.exclude_paths)
        \/ BeginsWithEntry(aitems[i].target_trait, acall.exclude_paths)}

\* the item satisfies the predicate the call counts
Satisfies(item) ==
    IF acall.count_current = "is_const" THEN item.is_const ELSE item.is_async

\* positions of the stable, non-excluded items satisfying the predicate
MatchedItems == {i \in StableItems \ ExcludedItems : Satisfies(aitems[i])}

\* C12: count_items returns (matched, excluded): excluded is the number of stable
\* items whose path or trait path starts with a configured prefix, matched the
\* number of stable, non-excluded items satisfying the predicate, and items that
\* are not stable add to neither; with the prefix list ["std::fs"] a stable item
\* at std::fs::File is excluded and one at std::vec::Vec is not.
C12_CountItemsContract ==
    acall.fn \in ModCalls =>
        /\ aout[2] = Cardinality(ExcludedItems)
        /\ aout[1] = Cardinality(MatchedItems)
        /\ (acall.exclude_paths = <<S("std::fs")>> /\ Len(aitems) = 1
                /\ aitems[1].stability = "Stable" /\ aitems[1].target_trait = S("")) =>
              /\ aitems[1].path = S("std::fs::File") => aout = <<0, 1>>
              /\ aitems[1].path = S("std::vec::Vec") => aout[2] = 0

C12_Witness ==
    /\ acall.fn = "count_items"
    /\ acall.exclude_paths = <<S("std::fs")>>
    /\ Len(aitems) = 2
    /\ aitems[1].stability = "Stable" /\ aitems[1].path = S("std::fs::File")
    /\ aitems[2].stability = "Stable" /\ aitems[2].path = S("std::vec::Vec")
    /\ aitems[2].target_trait = S("") /\ aitems[2].is_const
    /\ acall.count_current = "is_const"
    /\ aout = <<1, 1>>

\* target holds one of the configured entries somewhere
HoldsEntry(target, entries) ==
    \E k \in DOMAIN entries : \E from \in 0..(Len(target) - Len(entries[k])) :
        \A c \in DOMAIN entries[k] : target[from + c] = entries[k][c]

\* positions of the stable items the exclusion test of the call made excludes
ExcludedByCall ==
    IF acall.fn \in ModCalls THEN ExcludedItems
    ELSE {i \in StableItems : HoldsEntry(aitems[i].path, acall.exclude_paths)}

\* positions of the stable items the call lets through and its predicate accepts
MatchedByCall == {i \in StableItems \ ExcludedByCall : Satisfies(aitems[i])}

\* positions of the stable items the call lets through and its predicate rejects
IncludedNotMatching == {i \in StableItems \ ExcludedByCall : ~Satisfies(aitems[i])}

\* C13: the stable items are partitioned exactly into matched, excluded and
\* included-but-not-matching: each stable item is in exactly one class, an item
\* whose path and trait path both match adds 1 to excluded, so that
\* matched + excluded <= stableTotal and matched <= stableTotal - excluded.
C13_StablePartition ==
    acall.fn # "idle" =>
        /\ aout[1] = Cardinality(MatchedByCall)
        /\ aout[2] = Cardinality(ExcludedByCall)
        /\ aout[1] + aout[2] + Cardinality(IncludedNotMatching) = Cardinality(StableItems)
        /\ aout[1] + aout[2] <= Cardinality(StableItems)
        /\ aout[1] <= Cardinality(StableItems) - aout[2]

C13_Witness ==
    /\ acall.fn = "count_items"
    /\ acall.exclude_paths = <<S("std::vec"), S("std::fs")>>
    /\ acall.count_current = "is_async"
    /\ Len(aitems) = 2
    /\ aitems[1].stability = "Stable"
    /\ aitems[1].path = S("std::fs::File") /\ aitems[1].target_trait = S("std::fs::Seek")
    /\ aitems[2].stability = "Stable" /\ aitems[2].path = S("my::std::fs::x")
    /\ aitems[2].target_trait = S("core::cmp::Eq") /\ ~aitems[2].is_async
    /\ aout = <<0, 1>>

\* C14: exclusion matching is prefix-based in every counting entry point: a
\* stable item is counted as excluded only if its path or trait path begins with
\* a configured entry; a path that holds an entry after its start, such as
\* my::std::fs::x against "std::fs", is not excluded.
C14_ExclusionIsPrefixBased ==
    acall.fn # "idle" => aout[2] <= Cardinality(ExcludedItems)

-----------------------------------------------------------------------------
(* The rendered declarations. *)

\* the modifier prefixes of a function header, each present when its flag is set
Modifiers(header) ==
       (IF header.const_ THEN S("const ") ELSE S(""))
    \o (IF header.unsafe_ THEN S("unsafe ") ELSE S(""))
    \o (IF header.async_ THEN S("async ") ELSE S(""))

\* the const function `name` with one parameter x: i32, return type i32, no body
ConstFnExample ==
    FunctionInner(Generics(<<>>, <<>>), Header(TRUE, FALSE, FALSE), FALSE,
                  <<<<S("x"), TPrimitive(S("i32"))>>>>, Some(TPrimitive(S("i32"))))

\* C15: format_function emits `const ` exactly when the function is const,
\* `unsafe ` exactly when it is unsafe, `async ` exactly when it is async, and `;`
\* when it has no body; the const function `name` with parameter x: i32 and
\* return type i32 renders as `const fn name(x: i32) -> i32;`.
C15_FunctionModifiers ==
    (fcall.fn = "format_function" /\ fcall.name = S("name") /\ fout.st = "returned") =>
        /\ starts_with(fout.text, Modifiers(fcall.def.header) \o S("fn name"))
        /\ ends_with(fout.text, S(";")) <=> ~fcall.def.has_body
        /\ fcall.def = ConstFnExample => fout.text = S("const fn name(x: i32) -> i32;")

\* the trait Name<A: Display, B> where A: Clone, neither unsafe nor auto
TraitExample ==
    TraitInner(Generics(<<TypeParam(S("A"), <<TraitBound(S("Display"), "None")>>, None),
                          TypeParam(S("B"), <<>>, None)>>,
                        <<BoundPredicate(TGeneric(S("A")),
                                         <<TraitBound(S("Clone"), "None")>>)>>),
               <<>>, <<>>, FALSE, FALSE)

\* C16: the trait Name with type parameters A: Display and B and the
\* where-predicate A: Clone renders exactly as
\* `trait Name<A: Display, B> where A: Clone { }`.
C16_TraitRendering ==
    (fcall.fn \in {"format_trait", "main::format_trait"} /\ fcall.def = TraitExample
        /\ fout.st = "returned") =>
        fout.text = S("trait Name<A: Display, B> where A: Clone { }")

\* the safe impl of Eq for Point, without generics
ImplExample ==
    ImplInner(Generics(<<>>, <<>>), Some(Path(S("Eq"), "9:1")), TResolvedPath(S("Point")),
              <<>>, FALSE, FALSE, None)

\* C17: a safe impl of Eq for Point renders as `impl Eq for Point { }`, and the
\* `unsafe ` prefix appears exactly when the impl is unsafe.
C17_SafeImplRendering ==
    (fcall.fn = "format_impl" /\ fout.st = "returned") =>
        /\ starts_with(fout.text, S("unsafe ")) <=> fcall.def.is_unsafe
        /\ fcall.def = ImplExample => fout.text = S("impl Eq for Point { }")

\* C18: rendering is total: for every Type variant, bound and where-predicate,
\* region predicates included, the formatter returns a string and never aborts.
C18_RenderingIsTotal ==
    fout.st # "panicked" /\ (fcall.fn # "idle" => pc # "aborted")

-----------------------------------------------------------------------------
(* Merging three Crates. *)

\* the two sequences hold the same records, each as often
SameMultiset(v, w) ==
    /\ Len(v) = Len(w)
    /\ \A x \in Range(v) \cup Range(w) :
            Cardinality({i \in DOMAIN v : v[i] = x}) = Cardinality({i \in DOMAIN w : w[i] = x})

\* (core append alloc) append std
LeftGrouping == append(append(krate["core"], krate["alloc"]).self, krate["std"]).self

\* core append (alloc append std)
RightGrouping == append(krate["core"], append(krate["alloc"], krate["std"]).self).self

\* C19: merging three Crates with append gives the same multiset of records in
\* every collection for both groupings, and the result holds every record of
\* the three.
C19_AppendGroupings ==
    Loaded = Slots =>
        \A f \in Collections :
            /\ SameMultiset(LeftGrouping[f], RightGrouping[f])
            /\ SameMultiset(LeftGrouping[f],
                            krate["core"][f] \o krate["alloc"][f] \o krate["std"][f])

-----------------------------------------------------------------------------
(* Stability, impl block by impl block. *)

\* from_str returned the record of the trait impl o with this stability
EmittedWith(slot, o, stability) ==
    \E r \in Range(krate[slot].impls) :
        /\ r.name = o.item.inner.trait_[1].name
        /\ r.path = o.scope
        /\ r.decl = format_impl(o.item.inner)
        /\ r.stability = stability

\* C20: the stability of a trait impl's record depends only on the owner's marker,
\* the impl's own trait and the impl's own enum members: the record of an impl of
\* a stable owner whose own trait and members are not unstable is stable, whatever
\* the owner's other impls are and wherever the impl stands in the owner's list.
C20_StabilityIsPerImpl ==
    \A slot \in Loaded : \A o \in TraitImplOrigins :
        (/\ MarkedStable(o.owner)
         /\ ~PromotedByMembers(o.item.inner)
         /\ ~PromotedByTrait(o.item.inner))
            => EmittedWith(slot, o, "Stable")

-----------------------------------------------------------------------------
(* Order and duplicates after merging. *)

\* the Crates that hold a value: returned by from_str, then merged into or drained
Held == {slot \in Slots : kstate[slot] # "unset"}

\* C21: after any sequence of from_str and append calls every collection of
\* every Crate is sorted, by the key (kind, name, path) the sort of from_str
\* uses, and holds no record twice.
C21_SortedAfterAppend ==
    \A slot \in Held : \A f \in Collections :
        /\ NoEqualRecords(krate[slot][f])
        /\ \A i \in 1..(Len(krate[slot][f]) - 1) :
                KeyLeq(<<krate[slot][f][i].kind, krate[slot][f][i].name,
                         krate[slot][f][i].path>>,
                       <<krate[slot][f][i + 1].kind, krate[slot][f][i + 1].name,
                         krate[slot][f][i + 1].path>>)

-----------------------------------------------------------------------------
(* Exclusion and module subtrees. *)

\* target is one of the configured entries or lies in the module subtree of one
InSubtree(target, entries) ==
    \E k \in DOMAIN entries :
        \/ target = entries[k]
        \/ BeginsWithEntry(target, <<entries[k] \o S("::")>>)

\* C22: prefix exclusion scopes to module subtrees: a stable item is excluded for
\* an entry p only if its path (or trait path) equals p or starts with p followed
\* by "::"; std::ostrich::x is not excluded for the entry "std::os".
C22_ExclusionScopesToSubtrees ==
    acall.fn \in ModCalls =>
        aout[2] <= Cardinality({i \in StableItems :
                        \/ InSubtree(aitems[i].path, acall.exclude_paths)
                        \/ InSubtree(aitems[i].target_trait, acall.exclude_paths)})

=============================================================================
